---- MODULE Spec2Model ----
(***************************************************************************)
(* Parity-arbitrage bot: risk governor (src/risk/manager.py), paired-      *)
(* position ledger (src/positions/manager.py), dual-leg executor           *)
(* (src/exec/executor.py) and the orchestrator loops (src/bot.py).         *)
(*                                                                         *)
(* Money is counted in price ticks times shares (a price of 45 is 0.45,    *)
(* Unit is the payout 1.00 of a matched pair); time in clock ticks; a      *)
(* calendar day is DayLen ticks.  An action is the code that runs between  *)
(* two suspension points (await) of one asyncio task.                      *)
(***************************************************************************)
EXTENDS Integers, Sequences, FiniteSets, TLC

(* ---------------- configuration (src/config.py) ---------------- *)
max_notional_per_trade == 400
max_open_pairs == 1
cooldown_ms == 1
max_daily_loss == 20
max_position_value == 300
kill_switch_loss_threshold == 10
max_consecutive_failures == 2
min_edge == 2
slippage_buffer == 1
taker_fee_bps == 0

(* ---------------- bounds of the model ---------------- *)
MaxTime == 2
MaxSize == 3
MaxExecs == 2
MaxPolls == 2
MaxExits == 1
MaxPos == 1
MaxPnlCalls == 2
MaxFailures == 3
DayLen == 2

VARIABLES
    now,                  \* time.time()
    kill_switch_active,   \* RiskManager._kill_switch_active
    last_trade_time,      \* RiskManager._last_trade_time
    consecutive_failures, \* RiskManager._consecutive_failures
    daily_stats,          \* RiskManager._daily_stats
    ws_connected,         \* RiskManager._ws_connected
    positions,            \* PositionManager._positions
    risk_check,           \* the RiskCheck last returned, with the state it was computed in
    pnl_calls,            \* number of post-trade accounting calls made so far
    running,              \* ArbitrageBot._running
    stop_pc,              \* where stop() is: "none", "cancel_all" (awaiting cancel_all_orders), "done"
    tpc,                  \* where _trading_loop is suspended
    xpc,                  \* where _exit_monitor_loop is suspended
    xqueue,               \* the open positions _exit_monitor_loop still has to visit
    xpos,                 \* the position _exit_position is working on
    result,               \* the ExecutionResult of the entry in flight, or of the last one
    xresult,              \* the ExecutionResult of the exit in flight, or of the last one
    legs,                 \* the LegOrder objects of result (ey, en) and xresult (xy, xn)
    venue,                \* the venue's side of each leg's order: open or not, quantity traded
    sells,                \* SELL orders posted by _sell_position
    active_executions,    \* PairedExecutor._active_executions (its keys)
    n_execs,              \* number of execute_parity_trade calls so far
    n_exits,              \* number of exit_position calls so far
    invocation,           \* what the risk gate returned for the last execute_parity_trade call
    spc,                  \* where _spot_lag_loop is suspended
    loops,                \* where _ws_loop, _health_check_loop, _state_save_loop and start()
                          \* are, and the stream client's own _running flag
    markets,              \* OrderBookManager._markets
    token_to_market,      \* OrderBookManager._token_to_market
    fees,                 \* FeeConfig.taker_fee_bps
    detector,             \* ParityDetector._last_signals, and what scan_all_markets did last
    market_order,         \* the key order of OrderBookManager._markets
    exit_check,           \* what ConvergenceDetector.should_exit returned last
    exit_sold             \* the venue's side of the exits: per position and leg, the
                          \* quantity exit_position submitted for sale so far

riskVars == <<kill_switch_active, last_trade_time, consecutive_failures, daily_stats>>

botVars == <<running, stop_pc, tpc, xpc, xqueue, xpos, result, xresult, legs, venue,
             sells, active_executions, n_execs, n_exits, invocation, spc, loops, markets, token_to_market, fees, detector, market_order, exit_check, exit_sold>>

vars == <<now, kill_switch_active, last_trade_time, consecutive_failures, daily_stats,
          ws_connected, positions, risk_check, pnl_calls, running, stop_pc,
          tpc, xpc, xqueue, xpos, result, xresult, legs, venue, sells,
          active_executions, n_execs, n_exits, invocation, spc, loops, markets, token_to_market, fees, detector, market_order, exit_check, exit_sold>>

(* ---------------- RiskManager ---------------- *)
NoStats == [date |-> -1, realized_pnl |-> 0]

today == now \div DayLen

RiskCheck_ok == [passed |-> TRUE, violation |-> "none"]

RiskCheck_fail(v) == [passed |-> FALSE, violation |-> v]

get_open_positions == {id \in DOMAIN positions : positions[id].status = "OPEN"}

open_position_count == Cardinality(get_open_positions)

can_open_new_position_inclusive == open_position_count <= max_open_pairs

can_open_new_position == open_position_count < max_open_pairs

RECURSIVE SumCost(_)
SumCost(ids) ==
    IF ids = {} THEN 0
    ELSE LET id == CHOOSE x \in ids : TRUE
         IN positions[id].entry_cost + SumCost(ids \ {id})

total_exposure == SumCost(get_open_positions)

check_cooldown ==
    IF last_trade_time = 0 THEN TRUE
    ELSE (now - last_trade_time) >= cooldown_ms

init_daily_stats == [date |-> today, realized_pnl |-> 0]

\* the DailyStats object after _get_daily_pnl made sure there is one
stats_after_get == IF daily_stats = NoStats THEN init_daily_stats ELSE daily_stats

get_daily_pnl == stats_after_get.realized_pnl

update_daily_stats(pnl) ==
    LET base == IF daily_stats = NoStats \/ daily_stats.date # today
                THEN init_daily_stats ELSE daily_stats
    IN [base EXCEPT !.realized_pnl = @ + pnl]

daily_loss_hit_inclusive == get_daily_pnl <= -max_daily_loss

daily_loss_hit == get_daily_pnl < -max_daily_loss

check_can_trade_reordered ==
    IF kill_switch_active THEN RiskCheck_fail("KILL_SWITCH_TRIGGERED")
    ELSE IF ~can_open_new_position THEN RiskCheck_fail("MAX_OPEN_PAIRS")
    ELSE IF ~check_cooldown THEN RiskCheck_fail("COOLDOWN_ACTIVE")
    ELSE IF daily_loss_hit THEN RiskCheck_fail("MAX_DAILY_LOSS")
    ELSE IF total_exposure >= max_position_value THEN RiskCheck_fail("MAX_POSITION_VALUE")
    ELSE IF consecutive_failures >= max_consecutive_failures
         THEN RiskCheck_fail("CONSECUTIVE_FAILURES")
    ELSE RiskCheck_ok

check_can_trade ==
    IF kill_switch_active THEN RiskCheck_fail("KILL_SWITCH_TRIGGERED")
    ELSE IF ~check_cooldown THEN RiskCheck_fail("COOLDOWN_ACTIVE")
    ELSE IF ~can_open_new_position THEN RiskCheck_fail("MAX_OPEN_PAIRS")
    ELSE IF daily_loss_hit THEN RiskCheck_fail("MAX_DAILY_LOSS")
    ELSE IF total_exposure >= max_position_value THEN RiskCheck_fail("MAX_POSITION_VALUE")
    ELSE IF consecutive_failures >= max_consecutive_failures
         THEN RiskCheck_fail("CONSECUTIVE_FAILURES")
    ELSE RiskCheck_ok

\* effect of check_can_trade on _kill_switch_active (the call of _trigger_kill_switch)
kill_after_check == kill_switch_active \/ check_can_trade.violation = "MAX_DAILY_LOSS"

\* effect of check_can_trade on _daily_stats: _get_daily_pnl runs only when the
\* first three checks passed
stats_after_check ==
    IF check_can_trade.violation \in {"KILL_SWITCH_TRIGGERED", "COOLDOWN_ACTIVE", "MAX_OPEN_PAIRS"}
    THEN daily_stats ELSE stats_after_get

\* what the caller of check_can_trade saw, next to the state the checks read
checked_state ==
    [op |-> "check_can_trade",
     result |-> check_can_trade,
     kill |-> kill_switch_active,
     cooldown_ok |-> check_cooldown,
     can_open |-> can_open_new_position,
     daily_pnl |-> get_daily_pnl,
     exposure |-> total_exposure,
     failures |-> consecutive_failures,
     kill_after |-> kill_after_check]

NoCheck ==
    [op |-> "none", result |-> RiskCheck_ok, kill |-> FALSE, cooldown_ok |-> TRUE,
     can_open |-> TRUE, daily_pnl |-> 0, exposure |-> 0, failures |-> 0,
     kill_after |-> FALSE]

check_trade_size(size, price) ==
    LET notional == size * price
    IN IF notional > max_notional_per_trade THEN RiskCheck_fail("MAX_POSITION_VALUE")
       ELSE IF total_exposure + notional > max_position_value
            THEN RiskCheck_fail("MAX_POSITION_VALUE")
       ELSE RiskCheck_ok

\* _trigger_kill_switch sets the flag; record_trade reaches it only on a failure
record_trade_kill_sticky(success) ==
    /\ ~success
    /\ (kill_switch_active \/ consecutive_failures + 1 >= max_consecutive_failures)

record_trade_kill(success) ==
    \/ kill_switch_active
    \/ (~success /\ consecutive_failures + 1 >= max_consecutive_failures)

record_trade_failures_kept(success) ==
    IF success THEN consecutive_failures ELSE consecutive_failures + 1

record_trade_failures(success) == IF success THEN 0 ELSE consecutive_failures + 1

record_trade_stats(success, pnl) == IF success THEN update_daily_stats(pnl) ELSE daily_stats

record_trade_time_on_success(success) == IF success THEN now ELSE last_trade_time

\* _last_trade_time after record_trade: the time of the call, whatever the outcome
record_trade_time(success) == now

record_trade(success, pnl) ==
    /\ last_trade_time' = record_trade_time(success)
    /\ consecutive_failures' = record_trade_failures(success)
    /\ daily_stats' = record_trade_stats(success, pnl)
    /\ kill_switch_active' = record_trade_kill(success)

record_pnl_kill_daily_limit(pnl) ==
    \/ kill_switch_active
    \/ update_daily_stats(pnl).realized_pnl < -max_daily_loss

record_pnl_kill(pnl) ==
    \/ kill_switch_active
    \/ update_daily_stats(pnl).realized_pnl < -kill_switch_loss_threshold

record_pnl(pnl) ==
    /\ daily_stats' = update_daily_stats(pnl)
    /\ kill_switch_active' = record_pnl_kill(pnl)

(* ---------------- PairedPosition / PositionManager ---------------- *)
NoProceeds == -1

PairedPosition(size, yes_price, no_price, cost) ==
    [size |-> size, yes_entry_price |-> yes_price, no_entry_price |-> no_price,
     entry_cost |-> cost, status |-> "OPEN", exit_proceeds |-> NoProceeds,
     realized_pnl |-> 0]

\* get_open_positions on a ledger given as a value
open_positions_of(ledger) == {id \in DOMAIN ledger : ledger[id].status = "OPEN"}

(* ---------------- Database: the positions table ---------------- *)
\* position.status.value, for a status of the ledger's PositionStatus enum and for
\* one of the storage module's own PositionStatus enum ("STORED_...")
status_value(status) ==
    CASE status \in {"OPEN", "STORED_OPEN"} -> "open"
      [] status \in {"CLOSED", "STORED_CLOSED"} -> "closed"
      [] status \in {"RESOLVED", "STORED_RESOLVED"} -> "resolved"

\* the row save_position writes: exit_proceeds is stored only when it is truthy
save_position(pos) ==
    [size |-> pos.size, yes_entry_price |-> pos.yes_entry_price,
     no_entry_price |-> pos.no_entry_price, entry_cost |-> pos.entry_cost,
     status |-> status_value(pos.status),
     exit_proceeds |-> IF pos.exit_proceeds \in {NoProceeds, 0}
                       THEN NoProceeds ELSE pos.exit_proceeds,
     realized_pnl |-> pos.realized_pnl]

\* the StoredPosition _row_to_position builds: its status is a member of the
\* storage module's own PositionStatus enum, which no comparison with a member of
\* the ledger's PositionStatus finds equal
row_to_position(row) ==
    [size |-> row.size, yes_entry_price |-> row.yes_entry_price,
     no_entry_price |-> row.no_entry_price, entry_cost |-> row.entry_cost,
     status |-> CASE row.status = "open" -> "STORED_OPEN"
                  [] row.status = "closed" -> "STORED_CLOSED"
                  [] row.status = "resolved" -> "STORED_RESOLVED",
     exit_proceeds |-> row.exit_proceeds,
     realized_pnl |-> row.realized_pnl]

\* Database.get_open_positions: the rows whose status column is "open"
database_get_open_positions(table) ==
    LET open == {id \in DOMAIN table : table[id].status = "open"}
    IN [id \in open |-> row_to_position(table[id])]

\* _save_state on an empty table: one row per position of the ledger
save_state(ledger) == [id \in DOMAIN ledger |-> save_position(ledger[id])]

\* _load_state into a fresh ledger: add_position for every open row
load_state(table) == database_get_open_positions(table)

add_position(id, pos) ==
    [x \in DOMAIN positions \cup {id} |-> IF x = id THEN pos ELSE positions[x]]

close_gross(pos, exit_proceeds) ==
    [pos EXCEPT !.exit_proceeds = exit_proceeds,
                !.realized_pnl = exit_proceeds,
                !.status = "CLOSED"]

close(pos, exit_proceeds) ==
    [pos EXCEPT !.exit_proceeds = exit_proceeds,
                !.realized_pnl = exit_proceeds - pos.entry_cost,
                !.status = "CLOSED"]

resolve_reopened(pos, payout) ==
    [pos EXCEPT !.exit_proceeds = payout,
                !.realized_pnl = payout - pos.entry_cost,
                !.status = "OPEN"]

resolve(pos, payout) ==
    [pos EXCEPT !.exit_proceeds = payout,
                !.realized_pnl = payout - pos.entry_cost,
                !.status = "RESOLVED"]

remove_position(id) == [x \in DOMAIN positions \ {id} |-> positions[x]]

(* ---------------- LegOrder, ExecutionResult ---------------- *)
LegIds == {"ey", "en", "xy", "xn"}

EntryLegs == {"ey", "en"}

ExitLegs == {"xy", "xn"}

\* a LegOrder; pc is where the leg's _submit_leg task is suspended:
\*   "none" no task, "info" in get_market_info, "post" in post_order, "poll" in the
\*   loop of _wait_for_fill, "cancel" in cancel_order, "reconcile" in the get_trades
\*   of _cancel_and_check_partial, "done" returned
LegOrder(side, price, size) ==
    [side |-> side, price |-> price, size |-> size, has_order |-> FALSE,
     filled_size |-> 0, status |-> "PENDING", pc |-> "none", polls |-> 0]

NoLeg == LegOrder("NONE", 0, 0)

\* _submit_leg up to its first await
submit_leg_start(leg) == [leg EXCEPT !.status = "SUBMITTED", !.pc = "info"]

NoOrder == [open |-> FALSE, filled |-> 0]

\* an ExecutionResult; yes_leg and no_leg are its LegOrder objects as they were
\* when the legs' tasks had returned (NoLeg before that)
ExecutionResult(id, status) ==
    [execution_id |-> id, status |-> status, entry_cost |-> 0,
     actual_filled_size |-> 0, error |-> FALSE, yes_leg |-> NoLeg, no_leg |-> NoLeg]

NoResult == ExecutionResult(0, "NONE")

Min(a, b) == IF a < b THEN a ELSE b

needs_unwind(yes_leg, no_leg) ==
    /\ yes_leg.filled_size # no_leg.filled_size
    /\ (yes_leg.filled_size > 0 \/ no_leg.filled_size > 0)

(* ---------------- the venue ---------------- *)
\* a trade against a resting order of the bot
VenueFill(l) ==
    /\ legs[l].pc \notin {"none", "done"}
    /\ venue[l].open
    /\ venue[l].filled < legs[l].size
    /\ venue' = [venue EXCEPT ![l].filled = @ + 1,
                              ![l].open = (venue[l].filled + 1 < legs[l].size)]
    /\ UNCHANGED <<now, riskVars, ws_connected, positions, risk_check, pnl_calls,
                   running, stop_pc, tpc, xpc, xqueue, xpos, result, xresult, legs,
                   sells, active_executions, n_execs, n_exits, invocation, spc, loops, markets, token_to_market, fees, detector, market_order, exit_check, exit_sold>>

(* ---------------- PairedExecutor._submit_leg ---------------- *)
postFrame == <<now, riskVars, ws_connected, positions, risk_check, pnl_calls,
               running, stop_pc, tpc, xpc, xqueue, xpos, result, xresult,
               sells, active_executions, n_execs, n_exits, invocation, spc, loops, markets, token_to_market, fees, detector, market_order, exit_check>>

legFrame == <<postFrame, exit_sold>>

\* get_market_info returned or raised
LegInfo(l) ==
    /\ legs[l].pc = "info"
    /\ \E ok \in BOOLEAN :
         legs' = [legs EXCEPT ![l] =
                    IF ok THEN [@ EXCEPT !.pc = "post"]
                    ELSE [@ EXCEPT !.status = "FAILED", !.pc = "done"]]
    /\ UNCHANGED <<venue, legFrame>>

\* the venue's record of the SELL orders of exit_position after one more of
\* them: per position and leg, the quantity submitted for sale so far
exit_order_posted(l) ==
    IF l \in ExitLegs
    THEN [k \in DOMAIN exit_sold \cup {<<xpos, l>>} |->
            IF k = <<xpos, l>>
            THEN (IF k \in DOMAIN exit_sold THEN exit_sold[k] ELSE 0) + legs[l].size
            ELSE exit_sold[k]]
    ELSE exit_sold

\* post_order returned an order (the venue has it, open) or raised
LegPost(l) ==
    /\ legs[l].pc = "post"
    /\ \E ok \in BOOLEAN :
         IF ok
         THEN /\ legs' = [legs EXCEPT ![l] = [@ EXCEPT !.has_order = TRUE, !.pc = "poll"]]
              /\ venue' = [venue EXCEPT ![l] = [open |-> TRUE, filled |-> 0]]
              /\ exit_sold' = exit_order_posted(l)
         ELSE /\ legs' = [legs EXCEPT ![l] = [@ EXCEPT !.status = "FAILED", !.pc = "done"]]
              /\ UNCHANGED <<venue, exit_sold>>
    /\ UNCHANGED postFrame

\* one turn of the loop of _wait_for_fill in which the order is no longer in
\* get_open_orders: the sizes of the order's trades are added to filled_size.
\* (A turn that finds the order open, or whose request raises, changes nothing.)
wait_for_fill_turn(leg, traded) ==
    LET filled == leg.filled_size + traded
    IN IF filled >= leg.size
       THEN [leg EXCEPT !.status = "FILLED", !.filled_size = leg.size, !.pc = "done",
                        !.polls = 0]
       ELSE [leg EXCEPT !.filled_size = filled, !.polls = @ + 1]

LegPoll(l) ==
    /\ legs[l].pc = "poll"
    /\ ~venue[l].open
    /\ legs[l].polls < MaxPolls
    /\ legs' = [legs EXCEPT ![l] = wait_for_fill_turn(@, venue[l].filled)]
    /\ UNCHANGED <<venue, legFrame>>

\* the deadline of _wait_for_fill passed: _cancel_and_check_partial sends the cancel
LegTimeout(l) ==
    /\ legs[l].pc = "poll"
    /\ legs' = [legs EXCEPT ![l] = [@ EXCEPT !.pc = "cancel"]]
    /\ UNCHANGED <<venue, legFrame>>

\* cancel_order returned: True (the venue closed the order) or False (it did not)
LegCancel(l) ==
    /\ legs[l].pc = "cancel"
    /\ \E ok \in BOOLEAN :
         venue' = [venue EXCEPT ![l].open = IF ok THEN FALSE ELSE @]
    /\ legs' = [legs EXCEPT ![l].pc = "reconcile"]
    /\ UNCHANGED legFrame

\* the status _cancel_and_check_partial gives the leg
reconciled_status_unfilled(leg, filled) ==
    IF filled >= leg.size THEN "FILLED" ELSE "CANCELLED"

reconciled_status(leg, filled) ==
    IF filled > 0
    THEN (IF filled >= leg.size THEN "FILLED" ELSE "PARTIAL")
    ELSE "CANCELLED"

\* get_trades after the cancel returned (trades_ok) or raised
cancel_and_check_partial(leg, traded, trades_ok) ==
    LET filled == IF trades_ok THEN leg.filled_size + traded ELSE leg.filled_size
    IN [leg EXCEPT !.filled_size = filled, !.status = reconciled_status(leg, filled),
                   !.pc = "done", !.polls = 0]

LegReconcile(l) ==
    /\ legs[l].pc = "reconcile"
    /\ \E trades_ok \in BOOLEAN :
         legs' = [legs EXCEPT ![l] = cancel_and_check_partial(@, venue[l].filled, trades_ok)]
    /\ UNCHANGED <<venue, legFrame>>

(* ---------------- ParitySignal (what get_best_opportunity hands over) ---------------- *)
Unit == 100

AskPairs == {<<45, 50>>}

\* the signals of a market whose top-of-book asks are one of AskPairs, with a
\* top-of-book size of 1, MaxSize or MaxSize + 1 (the last one within
\* max_notional_per_trade and above max_position_value), and a gross edge above zero
Signals ==
    {[yes_ask |-> a[1], no_ask |-> a[2], combined_cost |-> a[1] + a[2], max_size |-> sz] :
        a \in {x \in AskPairs : x[1] + x[2] < Unit}, sz \in {1, MaxSize, MaxSize + 1}}

(* ---------------- ArbitrageBot._execute_signal, after execute_parity_trade ---------------- *)
from_execution_yes(res, yes_leg, no_leg) ==
    PairedPosition(yes_leg.filled_size, yes_leg.price, no_leg.price, res.entry_cost)

from_execution(res, yes_leg, no_leg) ==
    PairedPosition(res.actual_filled_size, yes_leg.price, no_leg.price, res.entry_cost)

\* the branch of _execute_signal taken for a returned result: does it add a position
adds_position_unless_failed(res) == res.status # "FAILED"

adds_position(res) ==
    \/ res.status = "COMPLETE"
    \/ (res.status = "PARTIAL" /\ res.actual_filled_size > 0)

trade_success_unless_failed(res) == res.status # "FAILED"

trade_success(res) == res.status \in {"COMPLETE", "PARTIAL"}

HandleResult(res, yes_leg, no_leg) ==
    /\ positions' = IF adds_position(res)
                    THEN add_position(res.execution_id, from_execution(res, yes_leg, no_leg))
                    ELSE positions
    /\ record_trade(trade_success(res), 0)

(* ---------------- PairedExecutor.execute_parity_trade ---------------- *)
complete_result(res, yes_leg, no_leg) ==
    [res EXCEPT !.status = "COMPLETE",
                !.actual_filled_size = Min(yes_leg.filled_size, no_leg.filled_size),
                !.entry_cost = yes_leg.price * yes_leg.filled_size
                               + no_leg.price * no_leg.filled_size]

\* the three branches after asyncio.gather
aggregate(res, yes_leg, no_leg) ==
    IF yes_leg.status = "FILLED" /\ no_leg.status = "FILLED"
    THEN complete_result(res, yes_leg, no_leg)
    ELSE IF needs_unwind(yes_leg, no_leg) THEN [res EXCEPT !.status = "UNWINDING"]
    ELSE [res EXCEPT !.status = "FAILED", !.error = TRUE]

\* the excess _unwind_partial sells: <<leg, size>>, or <<>> when the fills are equal
unwind_sell_whole(yes_leg, no_leg) ==
    IF yes_leg.filled_size > no_leg.filled_size
    THEN <<"ey", yes_leg.filled_size>>
    ELSE IF no_leg.filled_size > yes_leg.filled_size
    THEN <<"en", no_leg.filled_size>>
    ELSE <<>>

unwind_sell(yes_leg, no_leg) ==
    IF yes_leg.filled_size > no_leg.filled_size
    THEN <<"ey", yes_leg.filled_size - no_leg.filled_size>>
    ELSE IF no_leg.filled_size > yes_leg.filled_size
    THEN <<"en", no_leg.filled_size - yes_leg.filled_size>>
    ELSE <<>>

\* the result after _unwind_partial: the sell went through, or _sell_position raised
unwind_result(res, yes_leg, no_leg, sold) ==
    IF sold
    THEN [res EXCEPT !.actual_filled_size = Min(yes_leg.filled_size, no_leg.filled_size),
                     !.status = IF Min(yes_leg.filled_size, no_leg.filled_size) > 0
                                THEN "PARTIAL" ELSE "FAILED"]
    ELSE [res EXCEPT !.error = TRUE]

\* the tasks of these legs have returned: the model drops them and their orders
TasksGone(ls) ==
    /\ legs' = [l \in LegIds |-> IF l \in ls THEN NoLeg ELSE legs[l]]
    /\ venue' = [l \in LegIds |-> IF l \in ls THEN NoOrder ELSE venue[l]]

(* ---------------- ArbitrageBot._trading_loop ---------------- *)
tradingFrame == <<now, ws_connected, pnl_calls, running, stop_pc, xpc, xqueue, xpos,
                  xresult, n_exits, spc, loops, markets, token_to_market, fees, detector, market_order, exit_check, exit_sold>>

\* the loop finds _running false and ends
TradingLoopExit ==
    /\ tpc = "sleep"
    /\ ~running
    /\ tpc' = "stopped"
    /\ UNCHANGED <<now, riskVars, ws_connected, positions, risk_check, pnl_calls,
                   running, stop_pc, xpc, xqueue, xpos, result, xresult, legs, venue,
                   sells, active_executions, n_execs, n_exits, invocation, spc, loops, markets, token_to_market, fees, detector, market_order, exit_check, exit_sold>>

\* check_can_trade failed: the iteration sleeps
TradeBlocked ==
    /\ tpc = "sleep"
    /\ running
    /\ ~check_can_trade.passed
    /\ UNCHANGED risk_check
    /\ kill_switch_active' = kill_after_check
    /\ daily_stats' = stats_after_check
    /\ UNCHANGED <<last_trade_time, consecutive_failures, positions, tpc, result, legs,
                   venue, sells, active_executions, n_execs, invocation, tradingFrame>>

\* check_can_trade passed, the signal was refused by check_trade_size
TradeSizeRejected ==
    /\ tpc = "sleep"
    /\ running
    /\ check_can_trade.passed
    /\ \E sig \in Signals : ~check_trade_size(sig.max_size, sig.combined_cost).passed
    /\ UNCHANGED risk_check
    /\ kill_switch_active' = kill_after_check
    /\ daily_stats' = stats_after_check
    /\ UNCHANGED <<last_trade_time, consecutive_failures, positions, tpc, result, legs,
                   venue, sells, active_executions, n_execs, invocation, tradingFrame>>

gate_size_skipped(sig) == check_can_trade.passed

\* what _trading_loop and _execute_signal require before execute_parity_trade
gate(sig) ==
    /\ check_can_trade.passed
    /\ check_trade_size(sig.max_size, sig.combined_cost).passed

\* both checks passed: execute_parity_trade runs up to asyncio.gather
TradeExecute ==
    /\ tpc = "sleep"
    /\ running
    /\ n_execs < MaxExecs
    /\ \E sig \in Signals :
         /\ gate(sig)
         /\ invocation' = [can_trade |-> check_can_trade,
                           size_check |-> check_trade_size(sig.max_size, sig.combined_cost),
                           n |-> n_execs + 1]
         /\ legs' = [legs EXCEPT
                       !["ey"] = submit_leg_start(LegOrder("BUY", sig.yes_ask, sig.max_size)),
                       !["en"] = submit_leg_start(LegOrder("BUY", sig.no_ask, sig.max_size))]
    /\ UNCHANGED risk_check
    /\ kill_switch_active' = kill_after_check
    /\ daily_stats' = stats_after_check
    /\ n_execs' = n_execs + 1
    /\ result' = ExecutionResult(n_execs + 1, "IN_PROGRESS")
    /\ active_executions' = active_executions \cup {n_execs + 1}
    /\ venue' = [venue EXCEPT !["ey"] = NoOrder, !["en"] = NoOrder]
    /\ tpc' = "gather"
    /\ UNCHANGED <<last_trade_time, consecutive_failures, positions, sells, tradingFrame>>

\* asyncio.gather returned with both legs COMPLETE or with nothing to unwind:
\* execute_parity_trade returns and _execute_signal books the result
ExecReturn ==
    /\ tpc = "gather"
    /\ legs["ey"].pc = "done" /\ legs["en"].pc = "done"
    /\ LET res == [aggregate(result, legs["ey"], legs["en"])
                     EXCEPT !.yes_leg = legs["ey"], !.no_leg = legs["en"]]
       IN /\ res.status # "UNWINDING"
          /\ result' = res
          /\ HandleResult(res, legs["ey"], legs["en"])
    /\ TasksGone(EntryLegs)
    /\ tpc' = "sleep"
    /\ UNCHANGED <<risk_check, sells, active_executions, n_execs, invocation, tradingFrame>>

\* asyncio.gather returned with unequal fills: _unwind_partial starts, and waits
\* in _sell_position
ExecUnwindStart ==
    /\ tpc = "gather"
    /\ legs["ey"].pc = "done" /\ legs["en"].pc = "done"
    /\ LET res == [aggregate(result, legs["ey"], legs["en"])
                     EXCEPT !.yes_leg = legs["ey"], !.no_leg = legs["en"]]
       IN /\ res.status = "UNWINDING"
          /\ result' = res
    /\ TasksGone(EntryLegs)
    /\ tpc' = "unwind"
    /\ UNCHANGED <<riskVars, positions, risk_check, sells, active_executions,
                   n_execs, invocation, tradingFrame>>

\* _sell_position posted the SELL, or raised (no bid, or a request failed);
\* execute_parity_trade returns and _execute_signal books the result
ExecUnwindEnd ==
    /\ tpc = "unwind"
    /\ \E sold \in BOOLEAN :
         LET res == unwind_result(result, result.yes_leg, result.no_leg, sold)
         IN /\ result' = res
            /\ sells' = IF sold
                        THEN sells \cup {<<result.execution_id>>
                                          \o unwind_sell(result.yes_leg, result.no_leg)}
                        ELSE sells
            /\ HandleResult(res, result.yes_leg, result.no_leg)
    /\ tpc' = "sleep"
    /\ UNCHANGED <<risk_check, legs, venue, active_executions, n_execs, invocation,
                   tradingFrame>>

\* check_can_trade passed and get_best_opportunity found no signal: the iteration sleeps
TradeNoSignal ==
    /\ tpc = "sleep"
    /\ running
    /\ check_can_trade.passed
    /\ UNCHANGED risk_check
    /\ kill_switch_active' = kill_after_check
    /\ daily_stats' = stats_after_check
    /\ UNCHANGED <<last_trade_time, consecutive_failures, positions, tpc, result, legs,
                   venue, sells, active_executions, n_execs, invocation, tradingFrame>>

(* ---------------- PairedExecutor.exit_position, ArbitrageBot._exit_monitor_loop ---------------- *)
Bids == {<<30, 50>>, <<50, 50>>}

RECURSIVE SortedSeq(_)
SortedSeq(S) ==
    IF S = {} THEN <<>>
    ELSE LET m == CHOOSE x \in S : \A y \in S : x <= y
         IN <<m>> \o SortedSeq(S \ {m})

exitFrame == <<now, ws_connected, risk_check, running, stop_pc, tpc, result, sells,
               active_executions, n_execs, invocation, spc, loops, markets, token_to_market, fees, detector, market_order, exit_check, exit_sold>>

\* the for loop goes on over the positions q it has not visited: should_exit is
\* true for the k-th of them (exit_position is called and waits in get_price), or
\* for none (the loop sleeps)
\* (cap bounds the number of exit_position calls of the model)
ExitAdvanceUpTo(q, cap) ==
    \/ /\ xpc' = "sleep"
       /\ xqueue' = <<>>
       /\ UNCHANGED <<xpos, n_exits>>
    \/ /\ n_exits < cap
       /\ \E k \in 1..Len(q) :
            /\ xpos' = q[k]
            /\ xqueue' = SubSeq(q, k + 1, Len(q))
       /\ xpc' = "price"
       /\ n_exits' = n_exits + 1

ExitLoopExit ==
    /\ xpc = "sleep"
    /\ ~running
    /\ xpc' = "stopped"
    /\ UNCHANGED <<riskVars, positions, pnl_calls, xqueue, xpos, xresult, legs, venue,
                   n_exits, exitFrame>>

\* an iteration of the loop that exits some open position
ExitScanUpTo(cap) ==
    /\ xpc = "sleep"
    /\ running
    /\ get_open_positions # {}
    /\ ExitAdvanceUpTo(SortedSeq(get_open_positions), cap)
    /\ xpc' = "price"
    /\ UNCHANGED <<riskVars, positions, pnl_calls, xresult, legs, venue, exitFrame>>

ExitScan == ExitScanUpTo(MaxExits)

\* get_price returned the two bids: the SELL legs are created and their tasks start
ExitPrice ==
    /\ xpc = "price"
    /\ \E b \in Bids :
         legs' = [legs EXCEPT
                    !["xy"] = submit_leg_start(LegOrder("SELL", b[1], positions[xpos].size)),
                    !["xn"] = submit_leg_start(LegOrder("SELL", b[2], positions[xpos].size))]
    /\ venue' = [venue EXCEPT !["xy"] = NoOrder, !["xn"] = NoOrder]
    /\ xresult' = ExecutionResult(xpos, "IN_PROGRESS")
    /\ xpc' = "gather"
    /\ UNCHANGED <<riskVars, positions, pnl_calls, xqueue, xpos, n_exits, exitFrame>>

\* get_price raised: _exit_position logs it and the loop goes on
ExitPriceFailedUpTo(cap) ==
    /\ xpc = "price"
    /\ ExitAdvanceUpTo(xqueue, cap)
    /\ UNCHANGED <<riskVars, positions, pnl_calls, xresult, legs, venue, exitFrame>>

ExitPriceFailed == ExitPriceFailedUpTo(MaxExits)

exit_result(res, yes_leg, no_leg) ==
    IF yes_leg.status = "FILLED" /\ no_leg.status = "FILLED"
    THEN [res EXCEPT !.status = "COMPLETE",
                     !.actual_filled_size = Min(yes_leg.filled_size, no_leg.filled_size)]
    ELSE [res EXCEPT !.status = "PARTIAL"]

exit_proceeds(yes_leg, no_leg) ==
    yes_leg.price * yes_leg.filled_size + no_leg.price * no_leg.filled_size

\* asyncio.gather of the two SELL legs returned: exit_position returns, and on
\* COMPLETE _exit_position closes the position and reports its P&L
ExitReturnUpTo(cap) ==
    /\ xpc = "gather"
    /\ legs["xy"].pc = "done" /\ legs["xn"].pc = "done"
    /\ LET res == [exit_result(xresult, legs["xy"], legs["xn"])
                     EXCEPT !.yes_leg = legs["xy"], !.no_leg = legs["xn"]]
           closed == close(positions[xpos], exit_proceeds(legs["xy"], legs["xn"]))
       IN /\ xresult' = res
          /\ IF res.status = "COMPLETE"
             THEN /\ positions' = [positions EXCEPT ![xpos] = closed]
                  /\ record_pnl(closed.realized_pnl)
                  /\ pnl_calls' = pnl_calls + 1
             ELSE UNCHANGED <<positions, daily_stats, kill_switch_active, pnl_calls>>
    /\ ExitAdvanceUpTo(xqueue, cap)
    /\ TasksGone(ExitLegs)
    /\ UNCHANGED <<last_trade_time, consecutive_failures, exitFrame>>

ExitReturn == ExitReturnUpTo(MaxExits)

(* ---------------- ArbitrageBot.stop ---------------- *)
\* stop() up to its await of cancel_all_orders
StopRequest ==
    /\ stop_pc = "none"
    /\ running' = FALSE
    /\ stop_pc' = "cancel_all"
    /\ UNCHANGED <<now, riskVars, ws_connected, positions, risk_check, pnl_calls, tpc,
                   xpc, xqueue, xpos, result, xresult, legs, venue, sells,
                   active_executions, n_execs, n_exits, invocation, spc, loops, markets, token_to_market, fees, detector, market_order, exit_check, exit_sold>>

\* cancel_all_orders returned: True (the venue closed every open order) or False
StopCancelAll ==
    /\ stop_pc = "cancel_all"
    /\ \E ok \in BOOLEAN :
         venue' = [l \in LegIds |-> IF ok THEN [venue[l] EXCEPT !.open = FALSE] ELSE venue[l]]
    /\ stop_pc' = "done"
    /\ UNCHANGED <<now, riskVars, ws_connected, positions, risk_check, pnl_calls, running,
                   tpc, xpc, xqueue, xpos, result, xresult, legs, sells,
                   active_executions, n_execs, n_exits, invocation, spc, loops, markets, token_to_market, fees, detector, market_order, exit_check, exit_sold>>

(* ---------------- the clock, the operator, the health loop ---------------- *)
\* (cap bounds the clock of the model)
TickUpTo(cap) ==
    /\ now < cap
    /\ now' = now + 1
    /\ UNCHANGED <<riskVars, ws_connected, positions, risk_check, pnl_calls, botVars>>

Tick == TickUpTo(MaxTime)

reset_kill_switch == FALSE

ResetKillSwitch ==
    /\ kill_switch_active
    /\ kill_switch_active' = reset_kill_switch
    /\ UNCHANGED <<now, last_trade_time, consecutive_failures, daily_stats, ws_connected,
                   positions, risk_check, pnl_calls, botVars>>

\* run_health_check: of the risk governor's state only _daily_stats can change
\* (_get_daily_pnl creates today's DailyStats when there is none)
RunHealthCheck ==
    /\ daily_stats = NoStats
    /\ daily_stats' = stats_after_get
    /\ UNCHANGED <<now, kill_switch_active, last_trade_time, consecutive_failures,
                   ws_connected, positions, risk_check, pnl_calls, botVars>>

(* ---------------- the orchestrator ---------------- *)
\* the positions table at startup: empty, or with the row of one position bought
\* in an earlier run and saved OPEN
Databases == {<<>>, [id \in {0} |-> save_position(PairedPosition(1, 45, 50, 95))]}

\* _load_state: the ledger after startup holds what the open rows were loaded as
LoadedLedgers == {load_state(table) : table \in Databases}

\* the detector before its first scan
NoScan == [last_signals |-> <<>>, scan |-> <<>>, raised |-> FALSE]

\* before the first call of should_exit
NoExitCheck == [exit |-> FALSE, reason |-> ""]

NoInvocation == [can_trade |-> RiskCheck_ok, size_check |-> RiskCheck_ok, n |-> 0]

Init ==
    /\ now = 1
    /\ kill_switch_active = FALSE
    /\ last_trade_time = 0
    /\ consecutive_failures = 0
    /\ daily_stats = NoStats
    /\ ws_connected = FALSE
    /\ positions \in LoadedLedgers
    /\ risk_check = NoCheck
    /\ pnl_calls = 0
    /\ running = TRUE
    /\ stop_pc = "none"
    /\ tpc = "sleep"
    /\ xpc = "sleep"
    /\ xqueue = <<>>
    /\ xpos = 0
    /\ result = NoResult
    /\ xresult = NoResult
    /\ legs = [l \in LegIds |-> NoLeg]
    /\ venue = [l \in LegIds |-> NoOrder]
    /\ sells = {}
    /\ active_executions = {}
    /\ n_execs = 0
    /\ n_exits = 0
    /\ invocation = NoInvocation
    /\ spc = "sleep"
    /\ loops = [ws |-> "loop", ws_running |-> FALSE, health |-> "sleep", save |-> "sleep",
                start |-> "gather"]
    /\ markets = <<>>
    /\ token_to_market = <<>>
    /\ market_order = <<>>
    /\ fees = taker_fee_bps
    /\ detector = NoScan
    /\ exit_check = NoExitCheck
    /\ exit_sold = <<>>

Next ==
    \/ Tick
    \/ TradingLoopExit
    \/ TradeBlocked
    \/ TradeNoSignal
    \/ TradeSizeRejected
    \/ TradeExecute
    \/ ExecReturn
    \/ ExecUnwindStart
    \/ ExecUnwindEnd
    \/ \E l \in LegIds : LegInfo(l)
    \/ \E l \in LegIds : LegPost(l)
    \/ \E l \in LegIds : LegPoll(l)
    \/ \E l \in LegIds : LegTimeout(l)
    \/ \E l \in LegIds : LegCancel(l)
    \/ \E l \in LegIds : LegReconcile(l)
    \/ \E l \in LegIds : VenueFill(l)
    \/ ExitLoopExit
    \/ ExitScan
    \/ ExitPrice
    \/ ExitPriceFailed
    \/ ExitReturn
    \/ StopRequest
    \/ StopCancelAll
    \/ ResetKillSwitch
    \/ RunHealthCheck

Spec == Init /\ [][Next]_vars

(* ---------------- one entry at a time, without the exit loop ---------------- *)
NextExec ==
    \/ Tick
    \/ TradingLoopExit
    \/ TradeBlocked
    \/ TradeNoSignal
    \/ TradeSizeRejected
    \/ TradeExecute
    \/ ExecReturn
    \/ ExecUnwindStart
    \/ ExecUnwindEnd
    \/ \E l \in EntryLegs : LegInfo(l)
    \/ \E l \in EntryLegs : LegPost(l)
    \/ \E l \in EntryLegs : LegPoll(l)
    \/ \E l \in EntryLegs : LegTimeout(l)
    \/ \E l \in EntryLegs : LegCancel(l)
    \/ \E l \in EntryLegs : LegReconcile(l)
    \/ \E l \in EntryLegs : VenueFill(l)
    \/ StopRequest
    \/ StopCancelAll

SpecExec == Init /\ [][NextExec]_vars

(* ======================= claims ======================= *)
\* execute_parity_trade has returned result to _execute_signal
Returned == tpc \in {"sleep", "stopped"} /\ result.execution_id > 0

yes_filled == result.yes_leg.filled_size

no_filled == result.no_leg.filled_size

\* C1: an entry execution that returns PARTIAL has equal fills on its two legs, or
\* a SELL was posted on the over-filled leg's token for exactly the difference
C1_UnwindClosure ==
    (Returned /\ result.status = "PARTIAL") =>
        \/ yes_filled = no_filled
        \/ (yes_filled > no_filled
            /\ <<result.execution_id, "ey", yes_filled - no_filled>> \in sells)
        \/ (no_filled > yes_filled
            /\ <<result.execution_id, "en", no_filled - yes_filled>> \in sells)

C1_Witness ==
    /\ Returned
    /\ result.status = "PARTIAL"
    /\ yes_filled = 2
    /\ no_filled = 1
    /\ <<result.execution_id, "ey", 1>> \in sells

\* what a leg of the returned result bought and the unwind did not sell again
Sold(l) == IF \E n \in 1..(MaxSize * (MaxPolls + 1)) : <<result.execution_id, l, n>> \in sells
           THEN CHOOSE n \in 1..(MaxSize * (MaxPolls + 1)) : <<result.execution_id, l, n>> \in sells
           ELSE 0

yes_held == yes_filled - Sold("ey")

no_held == no_filled - Sold("en")

\* C2: an entry execution ends FAILED only when both legs have zero filled size
\* (nothing bought, or what was bought on one leg sold again by the unwind),
\* and one whose legs both end with the same non-zero fill below the target ends
\* PARTIAL with that fill as its achieved size
C2_FailedOnlyWhenUnfilled ==
    Returned =>
        /\ (result.status = "FAILED" => (yes_held = 0 /\ no_held = 0))
        /\ (yes_filled = no_filled /\ yes_filled > 0 /\ yes_filled < result.yes_leg.size
              => (result.status = "PARTIAL" /\ result.actual_filled_size = yes_filled))

\* C3: the result is COMPLETE exactly when both legs ended FILLED, and then both
\* filled sizes and the achieved size are the requested size and the entry cost
\* is size * (yes_ask + no_ask)
C3_CompleteAtTarget ==
    Returned =>
        /\ (result.status = "COMPLETE"
              <=> (result.yes_leg.status = "FILLED" /\ result.no_leg.status = "FILLED"))
        /\ (result.status = "COMPLETE" =>
              /\ yes_filled = result.yes_leg.size
              /\ no_filled = result.no_leg.size
              /\ result.actual_filled_size = result.yes_leg.size
              /\ result.entry_cost = result.yes_leg.price * yes_filled
                                     + result.no_leg.price * no_filled
              /\ result.entry_cost = result.yes_leg.size
                                     * (result.yes_leg.price + result.no_leg.price))

\* C4: every position added to the ledger after an entry has size > 0 and
\* entry_cost >= size * (yes_entry_price + no_entry_price)
C4_PositionCost ==
    \A id \in DOMAIN positions :
        id > 0 =>
            /\ positions[id].size > 0
            /\ positions[id].entry_cost >=
                 positions[id].size
                 * (positions[id].yes_entry_price + positions[id].no_entry_price)

\* C5: the size of a position added from an execution result is the smaller of
\* the two legs' filled sizes of that result when it is added
C5_MatchedSize ==
    (Returned /\ result.execution_id \in DOMAIN positions) =>
        positions[result.execution_id].size = Min(yes_filled, no_filled)

C5_Witness ==
    /\ Returned
    /\ result.execution_id \in DOMAIN positions
    /\ yes_filled # no_filled
    /\ positions[result.execution_id].size = no_filled

\* C6: execute_parity_trade is invoked only in a state in which check_can_trade
\* and check_trade_size(signal.max_size, signal.combined_cost) pass: the checks of
\* the iteration and the invocation see the same risk and ledger state
C6_RiskGate ==
    [][n_execs' # n_execs =>
          /\ check_can_trade.passed
          /\ check_trade_size(legs'["ey"].size,
                              legs'["ey"].price + legs'["en"].price).passed
          /\ invocation'.can_trade.passed
          /\ invocation'.size_check.passed
          /\ UNCHANGED <<positions, kill_switch_active, last_trade_time,
                         consecutive_failures>>]_vars

C6_Witness ==
    /\ tpc = "gather"
    /\ n_execs = MaxExecs
    /\ \E sig \in Signals : ~check_trade_size(sig.max_size, sig.combined_cost).passed
    /\ legs["ey"].size = 1

(* ---------------- the risk governor and the ledger, called directly ---------------- *)
PnlVals == {-max_daily_loss, -kill_switch_loss_threshold, -1, 1}

TradeSizes == {<<1, 95>>, <<2, 95>>, <<5, 95>>}

NewPositions ==
    {PairedPosition(1, 45, 50, 95), PairedPosition(2, 45, 50, max_position_value)}

Proceeds == {100}

PosIds == 0..MaxPos

RiskCheckCanTrade ==
    /\ risk_check.op = "none"
    /\ risk_check' = checked_state
    /\ kill_switch_active' = kill_after_check
    /\ daily_stats' = stats_after_check
    /\ UNCHANGED <<now, last_trade_time, consecutive_failures, ws_connected, positions,
                   pnl_calls, botVars>>

RiskCheckTradeSize ==
    /\ risk_check.op = "none"
    /\ \E t \in TradeSizes :
         risk_check' = [checked_state EXCEPT !.op = "check_trade_size",
                                             !.result = check_trade_size(t[1], t[2])]
    /\ UNCHANGED <<now, riskVars, ws_connected, positions, pnl_calls, botVars>>

RiskRecordTrade ==
    /\ \E success \in BOOLEAN, pnl \in PnlVals \cup {0} :
         /\ ~success => (pnl = 0 /\ consecutive_failures < MaxFailures)
         /\ pnl # 0 => pnl_calls < MaxPnlCalls
         /\ record_trade(success, pnl)
         /\ pnl_calls' = IF pnl # 0 THEN pnl_calls + 1 ELSE pnl_calls
    /\ UNCHANGED <<now, ws_connected, positions, risk_check, botVars>>

RiskRecordPnl ==
    /\ pnl_calls < MaxPnlCalls
    /\ \E pnl \in PnlVals : record_pnl(pnl)
    /\ pnl_calls' = pnl_calls + 1
    /\ UNCHANGED <<now, last_trade_time, consecutive_failures, ws_connected, positions,
                   risk_check, botVars>>

UpdateWsStatus ==
    /\ ws_connected' = ~ws_connected
    /\ UNCHANGED <<now, riskVars, positions, risk_check, pnl_calls, botVars>>

ledgerFrame == <<now, riskVars, ws_connected, risk_check, pnl_calls, botVars>>

LedgerAdd ==
    /\ \E id \in PosIds \ DOMAIN positions, pos \in NewPositions :
         positions' = add_position(id, pos)
    /\ UNCHANGED ledgerFrame

LedgerClose ==
    /\ \E id \in DOMAIN positions, p \in Proceeds :
         positions' = [positions EXCEPT ![id] = close(@, p)]
    /\ UNCHANGED ledgerFrame

LedgerResolve ==
    /\ \E id \in DOMAIN positions, p \in Proceeds :
         positions' = [positions EXCEPT ![id] = resolve(@, p)]
    /\ UNCHANGED ledgerFrame

LedgerRemove ==
    /\ \E id \in DOMAIN positions : positions' = remove_position(id)
    /\ UNCHANGED ledgerFrame

\* the caller has read the RiskCheck it was handed
RiskCheckReturn ==
    /\ risk_check.op # "none"
    /\ risk_check' = NoCheck
    /\ UNCHANGED <<now, riskVars, ws_connected, positions, pnl_calls, botVars>>

\* the calls are synchronous: nothing else runs while a caller holds a RiskCheck
RiskCall ==
    /\ risk_check.op = "none"
    /\ \/ Tick
       \/ RiskRecordTrade
       \/ RiskRecordPnl
       \/ ResetKillSwitch
       \/ UpdateWsStatus
       \/ RunHealthCheck
       \/ LedgerAdd
       \/ LedgerClose
       \/ LedgerResolve
       \/ LedgerRemove

NextRisk ==
    \/ RiskCheckCanTrade
    \/ RiskCheckTradeSize
    \/ RiskCheckReturn
    \/ RiskCall

SpecRisk == Init /\ [][NextRisk]_vars

(* ======================= claims about the risk governor ======================= *)
\* C7: a record_pnl call that leaves today's realized P&L below
\* -kill_switch_loss_threshold ends with the kill-switch latched; while it is
\* latched check_can_trade returns KILL_SWITCH_TRIGGERED and the trading loop
\* invokes no execute_parity_trade
C7_LossKill ==
    [][/\ (pnl_calls' = pnl_calls + 1
            /\ daily_stats'.realized_pnl < -kill_switch_loss_threshold)
          => kill_switch_active'
       /\ kill_switch_active
          => /\ check_can_trade = RiskCheck_fail("KILL_SWITCH_TRIGGERED")
             /\ n_execs' = n_execs]_vars

C7_Witness ==
    /\ kill_switch_active
    /\ pnl_calls > 0
    /\ daily_stats.realized_pnl < -kill_switch_loss_threshold
    /\ consecutive_failures = 0
    /\ running
    /\ tpc = "sleep"
    /\ n_execs < MaxExecs
    /\ \E sig \in Signals : check_trade_size(sig.max_size, sig.combined_cost).passed

\* C8: a latched kill-switch is cleared by reset_kill_switch and by no other
\* operation of the risk governor, the ledger or the clock
C8_KillLatched ==
    [][(kill_switch_active /\ ~kill_switch_active') => ResetKillSwitch]_vars

\* latched, and since then a successful record_trade, a better record_pnl or a day
\* rollover has run, and check_can_trade has just been called
C8_Witness ==
    /\ kill_switch_active
    /\ consecutive_failures < max_consecutive_failures
    /\ get_daily_pnl >= -kill_switch_loss_threshold
    /\ risk_check.op = "check_can_trade"
    /\ risk_check.result.violation = "KILL_SWITCH_TRIGGERED"

\* the six checks of check_can_trade on the state it was called in, in the order
\* of the claim
FirstFailing(r) ==
    IF r.kill THEN "KILL_SWITCH_TRIGGERED"
    ELSE IF ~r.cooldown_ok THEN "COOLDOWN_ACTIVE"
    ELSE IF ~r.can_open THEN "MAX_OPEN_PAIRS"
    ELSE IF r.daily_pnl < -max_daily_loss THEN "MAX_DAILY_LOSS"
    ELSE IF r.exposure >= max_position_value THEN "MAX_POSITION_VALUE"
    ELSE IF r.failures >= max_consecutive_failures THEN "CONSECUTIVE_FAILURES"
    ELSE "none"

ReachedDailyLoss ==
    /\ risk_check.op = "check_can_trade"
    /\ ~risk_check.kill
    /\ risk_check.cooldown_ok
    /\ risk_check.can_open

\* C10 as stated: with today's realized P&L <= -max_daily_loss at the daily-loss
\* check, check_can_trade returns MAX_DAILY_LOSS and the kill-switch is latched
C10_DailyLossInclusive ==
    (ReachedDailyLoss /\ risk_check.daily_pnl <= -max_daily_loss) =>
        /\ risk_check.result = RiskCheck_fail("MAX_DAILY_LOSS")
        /\ kill_switch_active

\* C10 amended: with today's realized P&L < -max_daily_loss at the daily-loss check,
\* check_can_trade returns MAX_DAILY_LOSS and the kill-switch is latched; at exactly
\* -max_daily_loss the daily-loss check passes and latches nothing
C10_DailyLossStrict ==
    /\ (ReachedDailyLoss /\ risk_check.daily_pnl < -max_daily_loss) =>
          /\ risk_check.result = RiskCheck_fail("MAX_DAILY_LOSS")
          /\ kill_switch_active
    /\ (ReachedDailyLoss /\ risk_check.daily_pnl = -max_daily_loss) =>
          /\ risk_check.result.violation # "MAX_DAILY_LOSS"
          /\ ~kill_switch_active

C10_Witness ==
    /\ ReachedDailyLoss
    /\ risk_check.daily_pnl < -max_daily_loss
    /\ risk_check.result.violation = "MAX_DAILY_LOSS"
    /\ kill_switch_active

\* C11: record_trade(True) sets the consecutive-failure counter to 0,
\* record_trade(False) adds exactly 1 to it and latches the kill-switch in the
\* same call when it reaches max_consecutive_failures, and no other operation
\* changes the counter
C11_FailureCounter ==
    [][/\ (consecutive_failures' # consecutive_failures) => RiskRecordTrade
       /\ \A success \in BOOLEAN, pnl \in PnlVals \cup {0} :
            (RiskRecordTrade /\ record_trade(success, pnl)) =>
               /\ success => consecutive_failures' = 0
               /\ ~success =>
                    /\ consecutive_failures' = consecutive_failures + 1
                    /\ (consecutive_failures' >= max_consecutive_failures
                          => kill_switch_active')]_vars

\* the counter reached the limit and nothing but the failures can have latched
C11_Witness ==
    /\ consecutive_failures = max_consecutive_failures
    /\ kill_switch_active
    /\ daily_stats = NoStats

\* C12: started from an empty ledger, total_exposure never exceeds
\* max_position_value, every executed entry having passed check_trade_size
\* (position 0 is the one a startup load brings, so its absence means the
\* ledger started empty)
C12_ExposureCap ==
    0 \notin DOMAIN positions =>
        /\ invocation.size_check.passed
        /\ total_exposure <= max_position_value

(* ---------------- the cap on open pairs across a restart ---------------- *)
\* the positions of the ledger that are open: entered in this run and not closed,
\* or loaded from an OPEN row of the database
held_open == {id \in DOMAIN positions : positions[id].status \in {"OPEN", "STORED_OPEN"}}

\* C13: after any sequence of orchestrator steps (startup load, entries, exits)
\* the number of open positions in the ledger never exceeds max_open_pairs
C13_OpenPairsCap == Cardinality(held_open) <= max_open_pairs

(* ---------------- the ledger under the exit monitor and direct calls ---------------- *)
\* _exit_position holds the position object itself until it returns, so the
\* position an exit is working on stays in the ledger of the model
ExitHolds(id) == xpc \in {"price", "gather"} /\ id = xpos

LedgerRemoveFree ==
    /\ \E id \in DOMAIN positions :
         /\ ~ExitHolds(id)
         /\ positions' = remove_position(id)
    /\ UNCHANGED ledgerFrame

NextLedger ==
    \/ ExitLoopExit
    \/ ExitScan
    \/ ExitPrice
    \/ ExitPriceFailed
    \/ ExitReturn
    \/ \E l \in ExitLegs : LegInfo(l)
    \/ \E l \in ExitLegs : LegPost(l)
    \/ \E l \in ExitLegs : LegPoll(l)
    \/ \E l \in ExitLegs : LegTimeout(l)
    \/ \E l \in ExitLegs : LegCancel(l)
    \/ \E l \in ExitLegs : LegReconcile(l)
    \/ \E l \in ExitLegs : VenueFill(l)
    \/ StopRequest
    \/ StopCancelAll
    \/ LedgerAdd
    \/ LedgerClose
    \/ LedgerResolve
    \/ LedgerRemoveFree

SpecLedger == Init /\ [][NextLedger]_vars

\* C14: a position whose status is no longer OPEN is never OPEN again, whatever
\* ledger operation or exit step comes next
C14_NeverReopened ==
    [][\A id \in DOMAIN positions :
          (positions[id].status # "OPEN" /\ id \in DOMAIN positions')
             => positions'[id].status # "OPEN"]_vars

\* a position the exit monitor closed was resolved afterwards, next to one that was
\* closed by a direct call
C14_Witness ==
    /\ xresult.status = "COMPLETE"
    /\ xresult.execution_id \in DOMAIN positions
    /\ positions[xresult.execution_id].status = "RESOLVED"
    /\ \E id \in DOMAIN positions : positions[id].status = "CLOSED"

\* C15: close and resolve set realized_pnl = proceeds - entry_cost, and a position
\* that is CLOSED or RESOLVED is changed by no later close or resolve
C15_CloseTerminal ==
    [][\A id \in DOMAIN positions :
          id \in DOMAIN positions' =>
             /\ positions'[id] # positions[id] =>
                  positions'[id].realized_pnl =
                     positions'[id].exit_proceeds - positions'[id].entry_cost
             /\ positions[id].status \in {"CLOSED", "RESOLVED"} =>
                  positions'[id] = positions[id]]_vars

\* C16: in an entry execution no fill-poll of a leg runs while the other leg
\* has still to issue its post_order (it is waiting for get_market_info or about
\* to post)
C16_SubmitBeforePoll ==
    [][\A l \in EntryLegs :
          LegPoll(l) => \A k \in EntryLegs : legs[k].pc \notin {"info", "post"}]_vars

\* C17: a leg whose order the venue accepted gets its final status either from
\* _wait_for_fill (FILLED) or, after the timeout, only once the cancel request
\* for its order has been made, and then the status is PARTIAL for a reconciled
\* fill strictly between 0 and the target and CANCELLED for a fill of 0
C17_CancelBeforeFinal ==
    [][\A l \in EntryLegs :
          (legs[l].has_order /\ legs[l].pc # "done" /\ legs'[l].pc = "done") =>
             \/ legs[l].pc = "poll" /\ legs'[l].status = "FILLED"
             \/ /\ legs[l].pc = "reconcile"
                /\ (0 < legs'[l].filled_size /\ legs'[l].filled_size < legs'[l].size)
                      => legs'[l].status = "PARTIAL"
                /\ legs'[l].filled_size = 0 => legs'[l].status = "CANCELLED"
                /\ legs'[l].status \in {"PARTIAL", "CANCELLED", "FILLED"}]_vars

\* both legs timed out: one reconciled to a partial fill, the other to none
C17_Witness ==
    /\ Returned
    /\ result.yes_leg.has_order /\ result.yes_leg.status = "PARTIAL"
    /\ result.yes_leg.filled_size < result.yes_leg.size
    /\ result.no_leg.has_order /\ result.no_leg.status = "CANCELLED"
    /\ result.no_leg.filled_size = 0

(* ---------------- ArbitrageBot._execute_spot_lag_signal ---------------- *)
spotFrame == <<now, ws_connected, positions, risk_check, pnl_calls, running, stop_pc,
               tpc, xpc, xqueue, xpos, result, xresult, legs, venue, sells,
               active_executions, n_execs, n_exits, invocation, loops, markets, token_to_market, fees, detector, market_order, exit_check, exit_sold>>

\* a spot-lag signal is refused by check_can_trade
SpotLagBlocked ==
    /\ spc = "sleep"
    /\ running
    /\ ~check_can_trade.passed
    /\ kill_switch_active' = kill_after_check
    /\ daily_stats' = stats_after_check
    /\ UNCHANGED <<last_trade_time, consecutive_failures, spc, spotFrame>>

\* check_can_trade passed: the order is built and post_order awaited
SpotLagCheck ==
    /\ spc = "sleep"
    /\ running
    /\ check_can_trade.passed
    /\ kill_switch_active' = kill_after_check
    /\ daily_stats' = stats_after_check
    /\ spc' = "post"
    /\ UNCHANGED <<last_trade_time, consecutive_failures, spotFrame>>

\* post_order returned (record_trade(True)) or raised (record_trade(False))
SpotLagReturn ==
    /\ spc = "post"
    /\ \E ok \in BOOLEAN :
         /\ ~ok => consecutive_failures < MaxFailures
         /\ record_trade(ok, 0)
    /\ spc' = "sleep"
    /\ UNCHANGED spotFrame

(* ---------------- entries next to the spot-lag loop ---------------- *)
NextEntry ==
    \/ NextExec
    \/ SpotLagBlocked
    \/ SpotLagCheck
    \/ SpotLagReturn

SpecEntry == Init /\ [][NextEntry]_vars

\* C18: after an entry execution whose unwind sell failed, what was filled on the
\* venue is in the position ledger
C18_FailedUnwindRecorded ==
    (Returned /\ result.status = "UNWINDING" /\ result.error
        /\ (yes_filled > 0 \/ no_filled > 0))
       => result.execution_id \in DOMAIN positions

\* the step in which _unwind_partial ends with its sell failed and _execute_signal
\* books the result
UnwindFailedStep == tpc = "unwind" /\ tpc' = "sleep" /\ result'.status = "UNWINDING"

\* C19: an entry whose unwind sell failed is accounted as a failure:
\* record_trade(False) runs for it, the consecutive-failure counter goes up by
\* one and the kill-switch latches when the counter reaches max_consecutive_failures
C19_UnwindFailureCounted ==
    [][UnwindFailedStep =>
          /\ record_trade(FALSE, 0)
          /\ consecutive_failures' = consecutive_failures + 1
          /\ (consecutive_failures' >= max_consecutive_failures => kill_switch_active')]_vars

\* the failed unwind was the failure that reached the limit
C19_Witness ==
    /\ Returned
    /\ result.status = "UNWINDING"
    /\ consecutive_failures = max_consecutive_failures
    /\ kill_switch_active
    /\ last_trade_time = now
    /\ spc = "sleep"

\* C20: a position enters the ledger only for an execution that has returned,
\* its unwind step (if any) over, with status COMPLETE or PARTIAL
C20_AddAfterUnwind ==
    [][\A id \in DOMAIN positions' \ DOMAIN positions :
          /\ tpc \in {"gather", "unwind"}
          /\ tpc' = "sleep"
          /\ result'.execution_id = id
          /\ result'.status \in {"COMPLETE", "PARTIAL"}]_vars

\* a position was added after an unwind that sold the excess of the NO leg
C20_Witness ==
    /\ Returned
    /\ result.status = "PARTIAL"
    /\ result.execution_id \in DOMAIN positions
    /\ no_filled > yes_filled
    /\ <<result.execution_id, "en", no_filled - yes_filled>> \in sells

(* ---------------- claims about the executor's active set ---------------- *)
\* C21: an execution is in the executor's active set only while it is in flight:
\* every id that get_active_executions returns belongs to the entry call that has
\* not returned yet
C21_ActiveWhileInFlight ==
    \A id \in active_executions :
        /\ tpc \in {"gather", "unwind"}
        /\ result.execution_id = id

(* ---------------- claims about the exit of a position ---------------- *)
\* the step in which exit_position returns to _exit_position
ExitReturned == xpc = "gather" /\ xpc' # "gather"

lifeFrame == <<now, riskVars, positions, risk_check, pnl_calls, running, stop_pc, tpc,
               xpc, xqueue, xpos, result, xresult, legs, venue, sells,
               active_executions, n_execs, n_exits, invocation, spc, markets, token_to_market, fees, detector, market_order, exit_check, exit_sold>>

\* _ws_loop finds _running false and ends
WsLoopExit ==
    /\ loops.ws = "loop"
    /\ ~running
    /\ loops' = [loops EXCEPT !.ws = "stopped"]
    /\ UNCHANGED <<ws_connected, lifeFrame>>

\* _ws_loop calls ws_client.connect, which raises the client's own _running flag
\* and awaits the connection
WsLoopConnect ==
    /\ loops.ws = "loop"
    /\ running
    /\ loops' = [loops EXCEPT !.ws = "connect", !.ws_running = TRUE]
    /\ UNCHANGED <<ws_connected, lifeFrame>>

\* _connect_and_subscribe returned: on_connected runs and _message_loop waits
WsConnected ==
    /\ loops.ws = "connect"
    /\ loops' = [loops EXCEPT !.ws = "messages"]
    /\ ws_connected' = TRUE
    /\ UNCHANGED lifeFrame

\* _connect_and_subscribe raised: connect reports the error and sleeps
WsConnectFailed ==
    /\ loops.ws = "connect"
    /\ loops' = [loops EXCEPT !.ws = "reconnect"]
    /\ UNCHANGED <<ws_connected, lifeFrame>>

\* _message_loop ended: with ConnectionClosed (on_disconnected runs) or otherwise
WsClosed ==
    /\ loops.ws = "messages"
    /\ loops' = [loops EXCEPT !.ws = "reconnect"]
    /\ \E closed \in BOOLEAN : ws_connected' = IF closed THEN FALSE ELSE ws_connected
    /\ UNCHANGED lifeFrame

\* connect is back at its while: it goes on while the client's _running is true,
\* and returns to _ws_loop otherwise
WsReconnect ==
    /\ loops.ws = "reconnect"
    /\ loops' = [loops EXCEPT !.ws = IF loops.ws_running THEN "connect" ELSE "loop"]
    /\ UNCHANGED <<ws_connected, lifeFrame>>

\* _health_check_loop finds _running false and ends
HealthLoopExit ==
    /\ loops.health = "sleep"
    /\ ~running
    /\ loops' = [loops EXCEPT !.health = "stopped"]
    /\ UNCHANGED <<ws_connected, lifeFrame>>

\* _state_save_loop finds _running false and ends
StateSaveLoopExit ==
    /\ loops.save = "sleep"
    /\ ~running
    /\ loops' = [loops EXCEPT !.save = "stopped"]
    /\ UNCHANGED <<ws_connected, lifeFrame>>

\* _spot_lag_loop finds _running false and ends
SpotLagLoopExit ==
    /\ spc = "sleep"
    /\ ~running
    /\ spc' = "stopped"
    /\ UNCHANGED <<riskVars, loops, spotFrame>>

\* asyncio.gather of the six loops returned: start() runs _cleanup, which
\* disconnects the stream client (on_disconnected runs), and returns
StartCleanup ==
    /\ loops.start = "gather"
    /\ tpc = "stopped" /\ xpc = "stopped" /\ spc = "stopped"
    /\ loops.ws = "stopped" /\ loops.health = "stopped" /\ loops.save = "stopped"
    /\ loops' = [loops EXCEPT !.start = "returned", !.ws_running = FALSE]
    /\ ws_connected' = FALSE
    /\ UNCHANGED lifeFrame

\* the steps of each task of the event loop
TradingTask == TradingLoopExit \/ ExecReturn \/ ExecUnwindStart \/ ExecUnwindEnd

LegTask(l) ==
    LegInfo(l) \/ LegPost(l) \/ LegPoll(l) \/ LegTimeout(l) \/ LegCancel(l) \/ LegReconcile(l)

WsTask == WsLoopExit \/ WsLoopConnect \/ WsConnected \/ WsConnectFailed \/ WsReconnect

NextStop ==
    \/ TradingLoopExit
    \/ TradeBlocked
    \/ TradeNoSignal
    \/ TradeSizeRejected
    \/ TradeExecute
    \/ ExecReturn
    \/ ExecUnwindStart
    \/ ExecUnwindEnd
    \/ \E l \in EntryLegs : LegInfo(l)
    \/ \E l \in EntryLegs : LegPost(l)
    \/ \E l \in EntryLegs : LegPoll(l)
    \/ \E l \in EntryLegs : LegTimeout(l)
    \/ \E l \in EntryLegs : LegCancel(l)
    \/ \E l \in EntryLegs : LegReconcile(l)
    \/ \E l \in EntryLegs : VenueFill(l)
    \/ ExitLoopExit
    \/ SpotLagLoopExit
    \/ WsLoopExit
    \/ WsLoopConnect
    \/ WsConnected
    \/ WsConnectFailed
    \/ WsClosed
    \/ WsReconnect
    \/ HealthLoopExit
    \/ StateSaveLoopExit
    \/ StopRequest
    \/ StopCancelAll
    \/ StartCleanup

\* the event loop runs every task that is ready, and every venue call returns
SpecStop ==
    /\ Init
    /\ [][NextStop]_vars
    /\ WF_vars(TradingTask)
    /\ \A l \in EntryLegs : WF_vars(LegTask(l))
    /\ WF_vars(ExitLoopExit)
    /\ WF_vars(SpotLagLoopExit)
    /\ WF_vars(WsTask)
    /\ WF_vars(HealthLoopExit)
    /\ WF_vars(StateSaveLoopExit)
    /\ WF_vars(StopCancelAll)
    /\ WF_vars(StartCleanup)

\* C23: after stop() is requested every loop of the orchestrator ends, start()
\* runs its cleanup and returns
C23_StopTerminates == (stop_pc # "none") ~> (loops.start = "returned")

(* ---------------- claims about stop() and the entries in flight ---------------- *)
\* C24: once stop() has issued its cancel-all request, no leg of an entry
\* submits its BUY order to the venue (no entry leg passes from get_market_info
\* to post_order)
C24_NoEntryAfterStop ==
    [][stop_pc # "none" =>
          \A l \in EntryLegs : ~(legs[l].pc = "info" /\ legs'[l].pc = "post")]_vars

(* ---------------- claims about a restart ---------------- *)
\* C25: after the ledger is saved (save_position for each position) and loaded
\* into a fresh ledger (_load_state), the OPEN positions the ledger reports are
\* the OPEN positions it reported before, with the same sizes and entry prices
C25_RestartKeepsOpen ==
    LET reloaded == load_state(save_state(positions))
    IN /\ open_positions_of(reloaded) = get_open_positions
       /\ \A id \in get_open_positions :
            /\ reloaded[id].size = positions[id].size
            /\ reloaded[id].yes_entry_price = positions[id].yes_entry_price
            /\ reloaded[id].no_entry_price = positions[id].no_entry_price

(* ---------------- BookSide, TokenBook, MarketBook ---------------- *)
\* what best_price and best_size return for an empty ladder (None)
NoPrice == -1

\* what get_market_by_token returns for a token it does not find (None)
NoMarket == ""

EmptyLevels == [p \in {} |-> 0]

\* BookSide.update with sizes of 0 kept
BookSide_update_keeps_zero(levels, price, size) ==
    IF size < 0
    THEN [p \in DOMAIN levels \ {price} |-> levels[p]]
    ELSE [p \in DOMAIN levels \cup {price} |-> IF p = price THEN size ELSE levels[p]]

\* BookSide.update: a size of 0 or less removes the level
BookSide_update(levels, price, size) ==
    IF size <= 0
    THEN [p \in DOMAIN levels \ {price} |-> levels[p]]
    ELSE [p \in DOMAIN levels \cup {price} |-> IF p = price THEN size ELSE levels[p]]

\* the for loop of BookSide.set_snapshot: the levels of positive size are stored
\* in the order of the list
RECURSIVE snapshot_levels(_, _)
snapshot_levels(list, acc) ==
    IF list = <<>> THEN acc
    ELSE LET price == Head(list)[1]
             size == Head(list)[2]
         IN snapshot_levels(Tail(list),
                IF size > 0
                THEN [p \in DOMAIN acc \cup {price} |-> IF p = price THEN size ELSE acc[p]]
                ELSE acc)

\* BookSide.set_snapshot without the clear
BookSide_set_snapshot_merged(levels, list) == snapshot_levels(list, levels)

BookSide_set_snapshot(levels, list) == snapshot_levels(list, EmptyLevels)

\* keys()[0] of the SortedDict: the highest price of a bid ladder (key -x), the
\* lowest of an ask ladder
best_price(levels, is_bid) ==
    IF DOMAIN levels = {} THEN NoPrice
    ELSE IF is_bid THEN CHOOSE p \in DOMAIN levels : \A q \in DOMAIN levels : q <= p
    ELSE CHOOSE p \in DOMAIN levels : \A q \in DOMAIN levels : p <= q

best_size(levels, is_bid) ==
    IF DOMAIN levels = {} THEN NoPrice ELSE levels[best_price(levels, is_bid)]

TokenBook(token_id) ==
    [token_id |-> token_id, bids |-> EmptyLevels, asks |-> EmptyLevels,
     last_update |-> 0, hash |-> ""]

TokenBook_update_level(book, side, price, size) ==
    IF side = "BUY"
    THEN [book EXCEPT !.bids = BookSide_update(@, price, size), !.last_update = now]
    ELSE [book EXCEPT !.asks = BookSide_update(@, price, size), !.last_update = now]

TokenBook_set_snapshot(book, bids, asks, book_hash) ==
    [book EXCEPT !.bids = BookSide_set_snapshot(@, bids),
                 !.asks = BookSide_set_snapshot(@, asks),
                 !.hash = book_hash,
                 !.last_update = now]

best_bid(book) == best_price(book.bids, TRUE)

best_ask(book) == best_price(book.asks, FALSE)

MarketBook(condition_id, yes_token_id, no_token_id) ==
    [condition_id |-> condition_id, yes_token_id |-> yes_token_id,
     no_token_id |-> no_token_id,
     yes_book |-> TokenBook(yes_token_id), no_book |-> TokenBook(no_token_id)]

(* ---------------- OrderBookManager ---------------- *)
add_market(condition_id, yes_token_id, no_token_id) ==
    /\ markets' = [c \in DOMAIN markets \cup {condition_id} |->
                     IF c = condition_id
                     THEN MarketBook(condition_id, yes_token_id, no_token_id)
                     ELSE markets[c]]
    /\ token_to_market' = [t \in DOMAIN token_to_market \cup {yes_token_id, no_token_id} |->
                             IF t \in {yes_token_id, no_token_id}
                             THEN condition_id ELSE token_to_market[t]]
    /\ market_order' = IF condition_id \in DOMAIN markets THEN market_order
                       ELSE Append(market_order, condition_id)

\* the condition id of the market get_market_by_token returns
get_market_by_token(token_id) ==
    IF token_id \in DOMAIN token_to_market /\ token_to_market[token_id] \in DOMAIN markets
    THEN token_to_market[token_id]
    ELSE NoMarket

\* the book of token_id in the store, a book of no token when it is not found
token_book(token_id) ==
    LET c == get_market_by_token(token_id)
    IN IF c = NoMarket THEN TokenBook("")
       ELSE IF token_id = markets[c].yes_token_id THEN markets[c].yes_book
       ELSE IF token_id = markets[c].no_token_id THEN markets[c].no_book
       ELSE TokenBook("")

\* the same with a token that is not found taken for the YES token of some market
on_token_book_any(token_id, book) ==
    LET c == IF get_market_by_token(token_id) # NoMarket \/ DOMAIN markets = {}
             THEN get_market_by_token(token_id)
             ELSE CHOOSE m \in DOMAIN markets : TRUE
    IN IF c = NoMarket THEN markets
       ELSE IF token_id = markets[c].no_token_id
       THEN [markets EXCEPT ![c].no_book = book]
       ELSE [markets EXCEPT ![c].yes_book = book]

\* the store with the book of token_id, the YES or the NO book of its market,
\* changed to book; a token that is not found, or is neither token of the market,
\* changes nothing
on_token_book(token_id, book) ==
    LET c == get_market_by_token(token_id)
    IN IF c = NoMarket THEN markets
       ELSE IF token_id = markets[c].yes_token_id
       THEN [markets EXCEPT ![c].yes_book = book]
       ELSE IF token_id = markets[c].no_token_id
       THEN [markets EXCEPT ![c].no_book = book]
       ELSE markets

update_book_snapshot(token_id, bids, asks, book_hash) ==
    on_token_book(token_id, TokenBook_set_snapshot(token_book(token_id), bids, asks, book_hash))

update_price_level(token_id, side, price, size) ==
    on_token_book(token_id, TokenBook_update_level(token_book(token_id), side, price, size))

\* the placeholder size update_best_bid_ask gives a new top level
PlaceholderSize == 1

update_best_bid_ask(token_id, bid, ask) ==
    on_token_book(token_id,
        [token_book(token_id) EXCEPT
           !.bids = IF bid > 0 /\ best_price(@, TRUE) # bid
                    THEN BookSide_update(@, bid, PlaceholderSize) ELSE @,
           !.asks = IF ask > 0 /\ best_price(@, FALSE) # ask
                    THEN BookSide_update(@, ask, PlaceholderSize) ELSE @,
           !.last_update = now])

(* ---------------- the stream callbacks of ArbitrageBot._setup_ws_callbacks ---------------- *)
Prices == {45, 50}

LevelSizes == {-1, 0, 2}

\* the level lists a book message carries
Snapshots ==
    {<<>>,
     <<<<45, 2>>>>,
     <<<<50, 2>>, <<45, 2>>>>,
     <<<<45, 0>>, <<50, 2>>>>,
     <<<<50, -1>>>>,
     <<<<45, 2>>, <<45, 0>>>>}

Hashes == {"h1"}

MarketIds == {"m1"}

\* the token pairs a market is registered with
TokenPairs == {<<"y1", "n1">>, <<"y2", "n2">>}

\* the tokens the book messages name; "zz" is never registered
MsgTokens == {"y1", "n1", "zz"}

\* the tokens the price-change and top-of-book messages name
DeltaTokens == {"y1", "zz"}

bookFrame == <<now, riskVars, positions, risk_check, pnl_calls, running, stop_pc, tpc,
               xpc, xqueue, xpos, result, xresult, legs, venue, sells,
               active_executions, n_execs, n_exits, invocation, spc, loops, fees, detector, exit_check, exit_sold>>

\* _init_markets registers a market
AddMarket ==
    /\ \E c \in MarketIds, tp \in TokenPairs : add_market(c, tp[1], tp[2])
    /\ UNCHANGED <<ws_connected, bookFrame>>

\* on_book: a book message replaces the ladders of its token
OnBook ==
    /\ \E t \in MsgTokens, bids \in Snapshots, asks \in Snapshots, h \in Hashes :
         markets' = update_book_snapshot(t, bids, asks, h)
    /\ UNCHANGED <<token_to_market, market_order, ws_connected, bookFrame>>

\* on_price_change: one price level of its token changes
OnPriceChange ==
    /\ \E t \in DeltaTokens, side \in {"BUY", "SELL"}, p \in Prices, sz \in LevelSizes :
         markets' = update_price_level(t, side, p, sz)
    /\ UNCHANGED <<token_to_market, market_order, ws_connected, bookFrame>>

\* on_best_bid_ask: the top of the book of its token, and the stream is known alive
OnBestBidAsk ==
    /\ \E t \in DeltaTokens, bid \in Prices \cup {0}, ask \in Prices \cup {0} :
         markets' = update_best_bid_ask(t, bid, ask)
    /\ ws_connected' = TRUE
    /\ UNCHANGED <<token_to_market, market_order, bookFrame>>

NextBook ==
    \/ AddMarket
    \/ OnBook
    \/ OnPriceChange
    \/ OnBestBidAsk

SpecBook == Init /\ [][NextBook]_vars

(* ---------------- claims about the order book store ---------------- *)
\* the token is one of the two tokens of the market the index gives for it
tracked(t) ==
    /\ get_market_by_token(t) # NoMarket
    /\ t \in {markets[get_market_by_token(t)].yes_token_id,
              markets[get_market_by_token(t)].no_token_id}

\* the book of a tracked token in the store mks
book_of(mks, t) ==
    IF t = mks[get_market_by_token(t)].yes_token_id
    THEN mks[get_market_by_token(t)].yes_book
    ELSE mks[get_market_by_token(t)].no_book

\* the prices a level list gives with a positive size
positive_prices(list) == {list[i][1] : i \in {j \in 1..Len(list) : list[j][2] > 0}}

lowest(S) == IF S = {} THEN NoPrice ELSE CHOOSE p \in S : \A q \in S : p <= q

highest(S) == IF S = {} THEN NoPrice ELSE CHOOSE p \in S : \A q \in S : q <= p

\* C26: whatever the book of a tracked token holds, right after a snapshot is
\* applied to it best_ask is the lowest price with a positive size among the
\* applied asks and best_bid the highest price with a positive size among the
\* applied bids (None when there is none)
C26_SnapshotBest ==
    \A t \in MsgTokens, bids \in Snapshots, asks \in Snapshots, h \in Hashes :
        tracked(t) =>
            LET book == book_of(update_book_snapshot(t, bids, asks, h), t)
            IN /\ best_ask(book) = lowest(positive_prices(asks))
               /\ best_bid(book) = highest(positive_prices(bids))

\* a snapshot left the YES book with the asks 45 and 50 and no bid
C26_Witness ==
    /\ "m1" \in DOMAIN markets
    /\ markets["m1"].yes_book.hash = "h1"
    /\ DOMAIN markets["m1"].yes_book.asks = {45, 50}
    /\ best_ask(markets["m1"].yes_book) = 45
    /\ best_bid(markets["m1"].yes_book) = NoPrice

\* every level of every ladder of the store mks has a size above zero
all_levels_positive(mks) ==
    \A c \in DOMAIN mks :
        /\ \A p \in DOMAIN mks[c].yes_book.bids : mks[c].yes_book.bids[p] > 0
        /\ \A p \in DOMAIN mks[c].yes_book.asks : mks[c].yes_book.asks[p] > 0
        /\ \A p \in DOMAIN mks[c].no_book.bids : mks[c].no_book.bids[p] > 0
        /\ \A p \in DOMAIN mks[c].no_book.asks : mks[c].no_book.asks[p] > 0

\* C27: after every add_market, snapshot, delta and best-bid/ask update, whatever
\* the sizes, every level kept in a ladder has a size above zero, and a delta of
\* size 0 on a tracked token removes its price level
C27_LevelsPositive ==
    [][/\ all_levels_positive(markets')
       /\ \A t \in DeltaTokens, p \in Prices :
            /\ (tracked(t) /\ markets' = update_price_level(t, "BUY", p, 0))
                  => p \notin DOMAIN book_of(markets', t).bids
            /\ (tracked(t) /\ markets' = update_price_level(t, "SELL", p, 0))
                  => p \notin DOMAIN book_of(markets', t).asks]_vars

\* the YES book holds a placeholder top bid above a bid a delta brought, and no ask
C27_Witness ==
    /\ "m1" \in DOMAIN markets
    /\ markets["m1"].yes_book.hash = ""
    /\ DOMAIN markets["m1"].yes_book.bids = {45, 50}
    /\ markets["m1"].yes_book.bids[45] = 2
    /\ markets["m1"].yes_book.bids[50] = PlaceholderSize
    /\ DOMAIN markets["m1"].yes_book.asks = {}

\* C28: a snapshot, delta or best-bid/ask update naming a token that is not in
\* the token index leaves the store as it is
C28_UntrackedNoChange ==
    \A t \in MsgTokens :
        t \notin DOMAIN token_to_market =>
            /\ \A bids \in Snapshots, asks \in Snapshots, h \in Hashes :
                 update_book_snapshot(t, bids, asks, h) = markets
            /\ \A side \in {"BUY", "SELL"}, p \in Prices, sz \in LevelSizes :
                 update_price_level(t, side, p, sz) = markets
            /\ \A bid \in Prices \cup {0}, ask \in Prices \cup {0} :
                 update_best_bid_ask(t, bid, ask) = markets

\* the store holds a market with both books filled, and "zz" is not in the index
C28_Witness ==
    /\ "m1" \in DOMAIN markets
    /\ "zz" \notin DOMAIN token_to_market
    /\ "y1" \in DOMAIN token_to_market
    /\ DOMAIN markets["m1"].yes_book.asks # {}
    /\ DOMAIN markets["m1"].no_book.bids # {}
    /\ markets["m1"].yes_book.last_update = now

(* ---------------- Decimal arithmetic (decimal.Decimal as the detector uses it) ---------------- *)
\* the precision of the decimal context: the number of significant digits a
\* quotient or a product is rounded to (half even); a Decimal is a coefficient c
\* and a number of decimal places p, its value c / 10^p
DecimalPrec == 4

RECURSIVE Pow10(_)
Pow10(n) == IF n <= 0 THEN 1 ELSE 10 * Pow10(n - 1)

\* the number of digits of a coefficient
RECURSIVE digits(_)
digits(c) == IF c < 10 THEN 1 ELSE 1 + digits(c \div 10)

Dec(n) == [c |-> n, p |-> 0]

\* n / d rounded to the nearest integer, a tie to the even one (ROUND_HALF_EVEN)
round_half_even(n, d) ==
    LET q == n \div d
        r == n % d
    IN IF 2 * r > d \/ (2 * r = d /\ q % 2 = 1) THEN q + 1 ELSE q

\* the coefficient cut to DecimalPrec digits
RECURSIVE dec_round(_, _)
dec_round(c, p) ==
    IF digits(c) <= DecimalPrec THEN [c |-> c, p |-> p]
    ELSE LET k == digits(c) - DecimalPrec
         IN dec_round(round_half_even(c, Pow10(k)), p - k)

\* the number of places the dividend is shifted by so that the quotient has
\* DecimalPrec digits (none when the division is exact before that)
RECURSIVE quotient_shift(_, _, _)
quotient_shift(n, d, s) ==
    IF (n * Pow10(s)) % d = 0 \/ digits((n * Pow10(s)) \div d) >= DecimalPrec THEN s
    ELSE quotient_shift(n, d, s + 1)

\* Decimal.__truediv__
dec_div(a, b) ==
    LET s == quotient_shift(a.c * Pow10(b.p), b.c * Pow10(a.p), 0)
    IN dec_round(round_half_even(a.c * Pow10(b.p) * Pow10(s), b.c * Pow10(a.p)), s)

\* Decimal.__mul__
dec_mul(a, b) == dec_round(a.c * b.c, a.p + b.p)

\* Decimal.__lt__ and __le__
dec_lt(a, b) == a.c * Pow10(b.p) < b.c * Pow10(a.p)

dec_le(a, b) == a.c * Pow10(b.p) <= b.c * Pow10(a.p)

\* min(a, b) of two Decimals: b only when it is below a
dec_min(a, b) == IF dec_lt(b, a) THEN b ELSE a

(* ---------------- MarketBook as the detector reads it ---------------- *)
\* a book older than this is stale
StaleSeconds == 1

\* TokenBook.age_seconds: a book that was never updated is older than every limit
age_seconds(book) ==
    IF book.last_update = 0 THEN StaleSeconds + 1 ELSE now - book.last_update

is_stale(market) ==
    age_seconds(market.yes_book) > StaleSeconds \/ age_seconds(market.no_book) > StaleSeconds

\* the smaller of the two top-of-book ask sizes, NoPrice (None) when a side has no ask
get_executable_size(market) ==
    LET yes_size == best_size(market.yes_book.asks, FALSE)
        no_size == best_size(market.no_book.asks, FALSE)
    IN IF yes_size = NoPrice \/ no_size = NoPrice THEN NoPrice
       ELSE IF no_size < yes_size THEN no_size ELSE yes_size

(* ---------------- ParityDetector ---------------- *)
\* check_market returned None
NoSignal ==
    [condition_id |-> NoMarket, yes_token_id |-> "", no_token_id |-> "", yes_ask |-> 0,
     no_ask |-> 0, combined_cost |-> 0, gross_edge |-> 0, net_edge |-> 0, max_size |-> Dec(0)]

\* check_market gets as far as calculate_fees
reaches_fees(market) ==
    /\ ~is_stale(market)
    /\ best_ask(market.yes_book) # NoPrice
    /\ best_ask(market.no_book) # NoPrice
    /\ Unit - (best_ask(market.yes_book) + best_ask(market.no_book)) > 0
    /\ get_executable_size(market) # NoPrice
    /\ get_executable_size(market) > 0

\* calculate_fees with a fee rate other than 0 multiplies the float rate by a
\* Decimal, which raises TypeError; with a rate of 0 it returns Decimal("0")
calculate_fees_raises == fees # 0

calculate_fees == 0

check_market_raises(market) == reaches_fees(market) /\ calculate_fees_raises

\* check_market when it does not raise
check_market(market) ==
    IF ~reaches_fees(market) THEN NoSignal
    ELSE LET yes_ask == best_ask(market.yes_book)
             no_ask == best_ask(market.no_book)
             combined_cost == yes_ask + no_ask
             gross_edge == Unit - combined_cost
             max_size_by_notional == dec_div(Dec(max_notional_per_trade), Dec(combined_cost))
             max_size == dec_min(Dec(get_executable_size(market)), max_size_by_notional)
             fee_per_share == calculate_fees
         IN [condition_id |-> market.condition_id,
             yes_token_id |-> market.yes_token_id,
             no_token_id |-> market.no_token_id,
             yes_ask |-> yes_ask,
             no_ask |-> no_ask,
             combined_cost |-> combined_cost,
             gross_edge |-> gross_edge,
             net_edge |-> gross_edge - fee_per_share - slippage_buffer,
             max_size |-> max_size]

\* get_all_markets: the condition ids of the markets of the store in the order
\* of the dict, the order in which they were added
get_all_markets == market_order

\* the for loop of scan_all_markets over the markets left in order; a raise of
\* check_market ends the scan with nothing returned
RECURSIVE scan_from(_, _)
scan_from(order, acc) ==
    IF order = <<>> THEN acc
    ELSE LET market == markets[Head(order)]
             signal == check_market(market)
         IN IF check_market_raises(market)
            THEN [acc EXCEPT !.scan = <<>>, !.raised = TRUE]
            ELSE IF signal # NoSignal /\ signal.net_edge >= min_edge
            THEN scan_from(Tail(order),
                     [acc EXCEPT
                        !.scan = Append(@, signal),
                        !.last_signals =
                            [c \in DOMAIN @ \cup {market.condition_id} |->
                                IF c = market.condition_id THEN signal ELSE @[c]]])
            ELSE scan_from(Tail(order), acc)

\* signals.sort(key=net_edge, reverse=True): stable, highest net edge first
RECURSIVE sort_by_net_edge(_)
sort_by_net_edge(list) ==
    IF list = <<>> THEN <<>>
    ELSE LET i == CHOOSE j \in 1..Len(list) :
                    /\ \A k \in 1..Len(list) : list[k].net_edge <= list[j].net_edge
                    /\ \A k \in 1..(j - 1) : list[k].net_edge < list[j].net_edge
         IN <<list[i]>> \o
            sort_by_net_edge([k \in 1..(Len(list) - 1) |-> IF k < i THEN list[k] ELSE list[k + 1]])

\* scan_all_markets without the sort
scan_all_markets_unsorted ==
    scan_from(get_all_markets,
              [last_signals |-> detector.last_signals, scan |-> <<>>, raised |-> FALSE])

scan_all_markets ==
    LET done == scan_from(get_all_markets,
                          [last_signals |-> detector.last_signals, scan |-> <<>>,
                           raised |-> FALSE])
    IN [done EXCEPT !.scan = sort_by_net_edge(@)]

\* get_best_opportunity: the first signal of the scan, NoSignal (None) without one
get_best_opportunity ==
    IF scan_all_markets.scan = <<>> THEN NoSignal ELSE Head(scan_all_markets.scan)

(* ---------------- ConvergenceDetector ---------------- *)
convergence_threshold == 1

\* should_exit with the spread converged only above the limit
should_exit_above(condition_id) ==
    IF condition_id \notin DOMAIN markets THEN [exit |-> TRUE, reason |-> "market_not_found"]
    ELSE LET market == markets[condition_id]
             yes_bid == best_bid(market.yes_book)
             no_bid == best_bid(market.no_book)
         IN IF yes_bid = NoPrice \/ no_bid = NoPrice
            THEN [exit |-> FALSE, reason |-> "no_bids"]
            ELSE IF yes_bid + no_bid > Unit - convergence_threshold
            THEN [exit |-> TRUE, reason |-> "spread_converged"]
            ELSE IF is_stale(market) THEN [exit |-> FALSE, reason |-> "stale_data"]
            ELSE [exit |-> FALSE, reason |-> "hold"]

should_exit(condition_id) ==
    IF condition_id \notin DOMAIN markets THEN [exit |-> TRUE, reason |-> "market_not_found"]
    ELSE LET market == markets[condition_id]
             yes_bid == best_bid(market.yes_book)
             no_bid == best_bid(market.no_book)
         IN IF yes_bid = NoPrice \/ no_bid = NoPrice
            THEN [exit |-> FALSE, reason |-> "no_bids"]
            ELSE IF yes_bid + no_bid >= Unit - convergence_threshold
            THEN [exit |-> TRUE, reason |-> "spread_converged"]
            ELSE IF is_stale(market) THEN [exit |-> FALSE, reason |-> "stale_data"]
            ELSE [exit |-> FALSE, reason |-> "hold"]

(* ---------------- the detector on its own ---------------- *)
MaxScanTime == 3

\* the fee rates a configuration can carry, in basis points
FeeBps == {0, 10}

\* the ask ladders of a book: none, one level, two levels
ScanAsks ==
    {EmptyLevels,
     BookSide_set_snapshot(EmptyLevels, <<<<45, 2>>>>),
     BookSide_set_snapshot(EmptyLevels, <<<<49, 2>>>>),
     BookSide_set_snapshot(EmptyLevels, <<<<50, 2>>, <<55, 1>>>>),
     BookSide_set_snapshot(EmptyLevels, <<<<10, 20>>>>),
     BookSide_set_snapshot(EmptyLevels, <<<<14, 20>>, <<50, 2>>>>)}

\* when a book was last updated: never, or at the first clock tick
ScanStamps == {0, 1}

\* the bid ladders of the YES and of the NO book
ScanYesBids ==
    {EmptyLevels,
     BookSide_set_snapshot(EmptyLevels, <<<<49, 2>>>>),
     BookSide_set_snapshot(EmptyLevels, <<<<50, 2>>, <<45, 2>>>>)}

ScanNoBids ==
    {EmptyLevels,
     BookSide_set_snapshot(EmptyLevels, <<<<45, 2>>>>),
     BookSide_set_snapshot(EmptyLevels, <<<<50, 2>>>>)}

\* the ask ladders of the YES books of two markets that are scanned together
TieAsks ==
    {BookSide_set_snapshot(EmptyLevels, <<<<45, 2>>>>),
     BookSide_set_snapshot(EmptyLevels, <<<<10, 20>>>>)}

\* a market whose books were filled by book messages
ScanMarket(c, yt, nt, ya, na, yb, nb, yu, nu) ==
    [MarketBook(c, yt, nt) EXCEPT
        !.yes_book = [@ EXCEPT !.asks = ya, !.bids = yb, !.last_update = yu],
        !.no_book = [@ EXCEPT !.asks = na, !.bids = nb, !.last_update = nu]]

\* the store after _init_markets and some book messages: one market, or two
\* markets added in either order
ScanStores ==
    {[markets |-> [c \in {"m1"} |-> ScanMarket("m1", "y1", "n1", ya, na, yb, nb, yu, nu)],
      token_to_market |-> [t \in {"y1", "n1"} |-> "m1"],
      market_order |-> <<"m1">>] :
        ya \in ScanAsks, na \in ScanAsks, yb \in ScanYesBids, nb \in ScanNoBids,
        yu \in ScanStamps, nu \in ScanStamps}
    \cup
    {[markets |-> [c \in {"m1", "m2"} |->
                     IF c = "m1"
                     THEN ScanMarket("m1", "y1", "n1", ya1,
                              BookSide_set_snapshot(EmptyLevels, <<<<50, 2>>>>),
                              EmptyLevels, EmptyLevels, 1, 1)
                     ELSE ScanMarket("m2", "y2", "n2", ya2,
                              BookSide_set_snapshot(EmptyLevels, <<<<50, 2>>>>),
                              EmptyLevels, EmptyLevels, 1, 1)],
      token_to_market |-> [t \in {"y1", "n1", "y2", "n2"} |->
                             IF t \in {"y1", "n1"} THEN "m1" ELSE "m2"],
      market_order |-> order] :
        ya1 \in TieAsks, ya2 \in TieAsks, order \in {<<"m1", "m2">>, <<"m2", "m1">>}}

scanFrame == <<riskVars, ws_connected, positions, risk_check, pnl_calls, running, stop_pc,
               tpc, xpc, xqueue, xpos, result, xresult, legs, venue, sells,
               active_executions, n_execs, n_exits, invocation, spc, loops, markets,
               token_to_market, fees, market_order>>

InitScan ==
    /\ now = 1
    /\ kill_switch_active = FALSE
    /\ last_trade_time = 0
    /\ consecutive_failures = 0
    /\ daily_stats = NoStats
    /\ ws_connected = FALSE
    /\ positions = <<>>
    /\ risk_check = NoCheck
    /\ pnl_calls = 0
    /\ running = TRUE
    /\ stop_pc = "none"
    /\ tpc = "sleep"
    /\ xpc = "sleep"
    /\ xqueue = <<>>
    /\ xpos = 0
    /\ result = NoResult
    /\ xresult = NoResult
    /\ legs = [l \in LegIds |-> NoLeg]
    /\ venue = [l \in LegIds |-> NoOrder]
    /\ sells = {}
    /\ active_executions = {}
    /\ n_execs = 0
    /\ n_exits = 0
    /\ invocation = NoInvocation
    /\ spc = "sleep"
    /\ loops = [ws |-> "loop", ws_running |-> FALSE, health |-> "sleep", save |-> "sleep",
                start |-> "gather"]
    /\ \E store \in ScanStores :
         /\ markets = store.markets
         /\ token_to_market = store.token_to_market
         /\ market_order = store.market_order
    /\ fees \in FeeBps
    /\ detector = NoScan
    /\ exit_check = NoExitCheck
    /\ exit_sold = <<>>

\* time passes between two scans
ScanClock ==
    /\ now < MaxScanTime
    /\ now' = now + 1
    /\ UNCHANGED <<scanFrame, detector, exit_check, exit_sold>>

\* get_best_opportunity: one call of scan_all_markets
Scan ==
    /\ detector' = scan_all_markets
    /\ UNCHANGED <<now, scanFrame, exit_check, exit_sold>>

\* the condition ids of the positions the exit loop asks about; "m9" is not tracked
ExitIds == {"m1", "m9"}

\* _exit_monitor_loop asks whether a position is to be exited
CheckExit ==
    /\ \E c \in ExitIds : exit_check' = should_exit(c)
    /\ UNCHANGED <<now, scanFrame, detector, exit_sold>>

NextScan ==
    \/ ScanClock
    \/ Scan
    \/ CheckExit

SpecScan == InitScan /\ [][NextScan]_vars

(* ---------------- claims about the detector ---------------- *)
\* the book was updated, and no longer than StaleSeconds ago
fresh(book) == book.last_update # 0 /\ now - book.last_update <= StaleSeconds

\* min(price, 1 - price), the factor of the fee formula
fee_factor(price) == IF Unit - price < price THEN Unit - price ELSE price

\* the fee of one share of each side, in ten-thousandths of a tick
fee_per_share_e4(yes_ask, no_ask) == fees * (fee_factor(yes_ask) + fee_factor(no_ask))

\* C29: a scan returns a signal for a market exactly when both of its books were
\* updated within the last StaleSeconds, both best asks are present, the gross
\* edge 1 - (yes_ask + no_ask) is above zero, the smaller top ask size is above
\* zero and the net edge, the gross edge less the per-share fee and the slippage
\* buffer, is at least min_edge; the signal carries these asks and edges
C29_ScanEmits ==
    \A c \in DOMAIN markets :
        LET yes_ask == best_ask(markets[c].yes_book)
            no_ask == best_ask(markets[c].no_book)
            gross_edge == Unit - (yes_ask + no_ask)
            due == /\ fresh(markets[c].yes_book)
                   /\ fresh(markets[c].no_book)
                   /\ yes_ask # NoPrice
                   /\ no_ask # NoPrice
                   /\ gross_edge > 0
                   /\ get_executable_size(markets[c]) > 0
                   /\ (gross_edge - slippage_buffer - min_edge) * 10000
                          >= fee_per_share_e4(yes_ask, no_ask)
            emitted == {i \in 1..Len(scan_all_markets.scan) :
                           scan_all_markets.scan[i].condition_id = c}
        IN /\ (emitted # {}) <=> due
           /\ \A i \in emitted :
                /\ scan_all_markets.scan[i].yes_ask = yes_ask
                /\ scan_all_markets.scan[i].no_ask = no_ask
                /\ scan_all_markets.scan[i].combined_cost = yes_ask + no_ask
                /\ scan_all_markets.scan[i].gross_edge = gross_edge
                /\ scan_all_markets.scan[i].net_edge * 10000 =
                       (gross_edge - slippage_buffer) * 10000
                           - fee_per_share_e4(yes_ask, no_ask)

\* C30: for every signal the last scan returned, max_size times the combined
\* cost, the notional check_trade_size computes, is at most
\* max_notional_per_trade, and max_size is at most the smaller of the two top
\* ask sizes
C30_SizeWithinNotional ==
    \A i \in 1..Len(detector.scan) :
        /\ dec_le(dec_mul(detector.scan[i].max_size, Dec(detector.scan[i].combined_cost)),
                  Dec(max_notional_per_trade))
        /\ dec_le(detector.scan[i].max_size,
                  Dec(get_executable_size(markets[detector.scan[i].condition_id])))

\* the place of a market in the order the markets were added in
RECURSIVE place(_, _)
place(order, c) == IF order = <<>> \/ Head(order) = c THEN 1 ELSE 1 + place(Tail(order), c)

\* C31: the list a scan returns is in descending order of net_edge, signals of
\* equal net_edge in the order their markets were added in, and
\* get_best_opportunity returns its first signal
C31_ScanOrdered ==
    /\ \A i \in 1..Len(scan_all_markets.scan), j \in 1..Len(scan_all_markets.scan) :
         i < j =>
            /\ scan_all_markets.scan[i].net_edge >= scan_all_markets.scan[j].net_edge
            /\ scan_all_markets.scan[i].net_edge = scan_all_markets.scan[j].net_edge
                  => place(market_order, scan_all_markets.scan[i].condition_id)
                         < place(market_order, scan_all_markets.scan[j].condition_id)
    /\ scan_all_markets.scan # <<>> => get_best_opportunity = scan_all_markets.scan[1]
    /\ detector.scan # <<>> /\ detector.scan = scan_all_markets.scan
          => get_best_opportunity = detector.scan[1]

\* a scan returned the signals of two markets with the same net edge, the market
\* added first in front, and a later scan of the same books returns the same list
C31_Witness ==
    /\ market_order = <<"m2", "m1">>
    /\ Len(detector.scan) = 2
    /\ detector.scan[1].condition_id = "m2"
    /\ detector.scan[2].condition_id = "m1"
    /\ detector.scan[1].net_edge = detector.scan[2].net_edge
    /\ detector.last_signals["m2"] = detector.scan[1]
    /\ scan_all_markets.scan = detector.scan

\* should_exit says exit with this reason
exits_with(c, reason) == should_exit(c) = [exit |-> TRUE, reason |-> reason]

\* C32: should_exit returns true exactly when the market is not tracked (reason
\* market_not_found) or both best bids are present and yes_bid + no_bid is at
\* least 1 - threshold (reason spread_converged, stale or not); with a best bid
\* absent it returns false; otherwise it returns false, with stale_data when the
\* market is stale and hold when it is not
C32_ShouldExit ==
    \A c \in ExitIds :
        IF c \notin DOMAIN markets THEN exits_with(c, "market_not_found")
        ELSE LET yes_bid == best_bid(markets[c].yes_book)
                 no_bid == best_bid(markets[c].no_book)
                 never == markets[c].yes_book.last_update = 0
                             \/ markets[c].no_book.last_update = 0
                 old == never \/ now - markets[c].yes_book.last_update > StaleSeconds
                              \/ now - markets[c].no_book.last_update > StaleSeconds
             IN IF yes_bid = NoPrice \/ no_bid = NoPrice THEN ~should_exit(c).exit
                ELSE IF yes_bid + no_bid >= Unit - convergence_threshold
                THEN exits_with(c, "spread_converged")
                ELSE should_exit(c) = [exit |-> FALSE,
                                       reason |-> IF old THEN "stale_data" ELSE "hold"]

\* should_exit said exit for a stale market whose bids add up to exactly
\* 1 - threshold
C32_Witness ==
    /\ exit_check = [exit |-> TRUE, reason |-> "spread_converged"]
    /\ exit_check = should_exit("m1")
    /\ is_stale(markets["m1"])
    /\ best_bid(markets["m1"].yes_book) + best_bid(markets["m1"].no_book)
          = Unit - convergence_threshold

\* C33: when check_can_trade runs on a date later than the date of the daily
\* statistics, the daily P&L it reads is that of the new date, on which nothing
\* was realised yet: the loss of the earlier date neither makes it return
\* MAX_DAILY_LOSS nor latches the kill-switch
C33_DailyLossRollsOver ==
    (risk_check.op = "check_can_trade" /\ daily_stats # NoStats /\ daily_stats.date < today)
        => /\ risk_check.daily_pnl = 0
           /\ risk_check.result.violation # "MAX_DAILY_LOSS"
           /\ risk_check.kill_after = risk_check.kill

\* C34: whenever the message loop of a running stream client ends, the connection
\* being lost, the risk governor's ws_connected flag is false afterwards and a
\* reconnect follows
C34_LostMarksDisconnected ==
    [][(loops.ws = "messages" /\ loops'.ws # "messages")
          => (~ws_connected' /\ loops'.ws = "reconnect")]_vars

\* C35: at every moment of an execution the filled_size of a leg is at most the
\* leg's target size and counts every trade of its order once: it never exceeds
\* the quantity the venue traded for the order, however often get_trades
\* returned the same trade
C35_TradesCountedOnce ==
    \A l \in LegIds :
        /\ legs[l].filled_size <= legs[l].size
        /\ legs[l].filled_size <= venue[l].filled

(* ---------------- the exit monitor over several attempts ---------------- *)
MaxExitAttempts == 2

\* the exit loop with a position in the ledger and up to MaxExitAttempts calls
\* of exit_position
NextExit ==
    \/ LedgerAdd
    \/ ExitScanUpTo(MaxExitAttempts)
    \/ ExitPrice
    \/ ExitPriceFailedUpTo(MaxExitAttempts)
    \/ ExitReturnUpTo(MaxExitAttempts)
    \/ \E l \in ExitLegs : LegInfo(l)
    \/ \E l \in ExitLegs : LegPost(l)
    \/ \E l \in ExitLegs : LegPoll(l)
    \/ \E l \in ExitLegs : LegTimeout(l)
    \/ \E l \in ExitLegs : LegCancel(l)
    \/ \E l \in ExitLegs : LegReconcile(l)
    \/ \E l \in ExitLegs : VenueFill(l)

SpecExit == Init /\ [][NextExit]_vars

\* C36: for every position and each of its two tokens, the quantity the exit
\* path submitted for sale, summed over all exit attempts, is at most the size
\* of the position
C36_ExitSellsWithinSize ==
    \A k \in DOMAIN exit_sold :
        k[1] \in DOMAIN positions => exit_sold[k] <= positions[k[1]].size

\* C37: whatever the ladders of a tracked token hold, right after
\* update_best_bid_ask with a bid hint and an ask hint above zero best_bid is the
\* hinted bid and best_ask the hinted ask, and every level the ladders already
\* held keeps its size
C37_HintIsBest ==
    \A t \in DeltaTokens, bid \in Prices, ask \in Prices :
        tracked(t) =>
            LET old == book_of(markets, t)
                book == book_of(update_best_bid_ask(t, bid, ask), t)
            IN /\ best_bid(book) = bid
               /\ best_ask(book) = ask
               /\ \A p \in DOMAIN old.bids \cap DOMAIN book.bids : book.bids[p] = old.bids[p]
               /\ \A p \in DOMAIN old.asks \cap DOMAIN book.asks : book.asks[p] = old.asks[p]

(* ---------------- the trading loop with an operator who resets the kill-switch ---------------- *)
MaxRecoverTime == 3

\* the bot keeps running: nobody calls stop()
NextRecover ==
    \/ TickUpTo(MaxRecoverTime)
    \/ TradeBlocked
    \/ TradeNoSignal
    \/ TradeSizeRejected
    \/ TradeExecute
    \/ ExecReturn
    \/ ExecUnwindStart
    \/ ExecUnwindEnd
    \/ \E l \in EntryLegs : LegInfo(l)
    \/ \E l \in EntryLegs : LegPost(l)
    \/ \E l \in EntryLegs : LegPoll(l)
    \/ \E l \in EntryLegs : LegTimeout(l)
    \/ \E l \in EntryLegs : LegCancel(l)
    \/ \E l \in EntryLegs : LegReconcile(l)
    \/ \E l \in EntryLegs : VenueFill(l)
    \/ ResetKillSwitch

\* time passes, the event loop runs every task that is ready and every venue
\* call returns; the operator's reset is under no obligation
SpecRecover ==
    /\ Init
    /\ [][NextRecover]_vars
    /\ WF_vars(TickUpTo(MaxRecoverTime))
    /\ WF_vars(TradingTask)
    /\ \A l \in EntryLegs : WF_vars(LegTask(l))

\* reset_kill_switch was called after the consecutive failures latched the
\* kill-switch (record_trade latches it as soon as the counter reaches the
\* limit), and the cooldown, the position limits and the daily loss let
\* check_can_trade through to its last test
ResetAfterFailures ==
    /\ ~kill_switch_active
    /\ consecutive_failures >= max_consecutive_failures
    /\ check_can_trade.violation = "CONSECUTIVE_FAILURES"

\* C38: once reset_kill_switch has cleared a kill-switch that the consecutive
\* failures latched, check_can_trade eventually returns ok again
C38_ResetRecovers == ResetAfterFailures ~> (check_can_trade = RiskCheck_ok)

\* while the counter is at the limit no step of the program lowers it
FailuresStay ==
    [][consecutive_failures >= max_consecutive_failures
          => consecutive_failures' >= max_consecutive_failures]_vars

(* ---------------- claims about the cooldown between entries ---------------- *)
\* the step in which _execute_signal books the result of an entry execution
EntryBooked == tpc \in {"gather", "unwind"} /\ tpc' = "sleep"

\* the step in which the trading loop starts an entry execution
EntryStarted == n_execs' = n_execs + 1

\* C39: _last_trade_time changes only when an entry execution is booked, and
\* is then the time of the record_trade call whether the entry succeeded or
\* failed; an entry execution that is not the first starts at least cooldown_ms
\* after that time; and as long as no entry was booked check_can_trade never
\* returns COOLDOWN_ACTIVE
C39_CooldownBetweenEntries ==
    [][/\ EntryBooked => (last_trade_time' = now /\ last_trade_time' > 0)
       /\ last_trade_time' # last_trade_time => EntryBooked
       /\ (EntryStarted /\ n_execs > 0)
             => (last_trade_time > 0 /\ now - last_trade_time >= cooldown_ms)
       /\ last_trade_time = 0
             => (n_execs <= 1 /\ check_can_trade.violation # "COOLDOWN_ACTIVE")]_vars

\* a second entry execution is under way, started when the cooldown after a
\* failed first one had just passed
C39_Witness ==
    /\ n_execs = 2
    /\ tpc = "gather"
    /\ consecutive_failures = 1
    /\ last_trade_time > 0
    /\ now - last_trade_time = cooldown_ms

\* a second entry execution is under way after a first one that was booked as a success
C39_WitnessSuccess ==
    /\ n_execs = 2
    /\ tpc = "gather"
    /\ consecutive_failures = 0
    /\ now - last_trade_time = cooldown_ms

(* ---------------- the token index under add_market and remove_market ---------------- *)
\* OrderBookManager.remove_market: the market leaves the map, and the two tokens
\* it was registered with leave the index, whichever market they are indexed to
remove_market(condition_id) ==
    /\ markets' = [c \in DOMAIN markets \ {condition_id} |-> markets[c]]
    /\ token_to_market' =
         IF condition_id \in DOMAIN markets
         THEN [t \in DOMAIN token_to_market
                       \ {markets[condition_id].yes_token_id,
                          markets[condition_id].no_token_id} |-> token_to_market[t]]
         ELSE token_to_market
    /\ market_order' = SelectSeq(market_order, LAMBDA c : c # condition_id)

IndexIds == {"m1", "m2"}

IndexTokens == {"y1", "n1", "y2"}

\* add_market with any two distinct tokens: a condition id can come again with
\* other tokens, and a token can come again in another market
IndexAddMarket ==
    /\ \E c \in IndexIds, yt \in IndexTokens, nt \in IndexTokens :
         /\ yt # nt
         /\ add_market(c, yt, nt)
    /\ UNCHANGED <<ws_connected, bookFrame>>

RemoveMarket ==
    /\ \E c \in IndexIds : remove_market(c)
    /\ UNCHANGED <<ws_connected, bookFrame>>

NextIndex ==
    \/ IndexAddMarket
    \/ RemoveMarket

SpecIndex == Init /\ [][NextIndex]_vars

\* C40: every indexed token maps to a tracked market that has it as its YES or
\* its NO token, and both tokens of every tracked market are indexed to that market
C40_IndexConsistent ==
    /\ \A t \in DOMAIN token_to_market :
         /\ token_to_market[t] \in DOMAIN markets
         /\ t \in {markets[token_to_market[t]].yes_token_id,
                   markets[token_to_market[t]].no_token_id}
    /\ \A c \in DOMAIN markets :
         /\ markets[c].yes_token_id \in DOMAIN token_to_market
         /\ markets[c].no_token_id \in DOMAIN token_to_market
         /\ token_to_market[markets[c].yes_token_id] = c
         /\ token_to_market[markets[c].no_token_id] = c
====
